---- MODULE Spec2Model ----
(***************************************************************************)
(* A model of the zentask-board sync engine: the serverless full-snapshot  *)
(* handler (api/feishu/sync.ts), the single-record handler                 *)
(* (api/feishu/record.ts), the front-end sync service (feishuService) and  *)
(* the App component's mutation handlers and effects.                      *)
(*                                                                         *)
(* Conventions: 0 stands for an absent value (recordId undefined, no       *)
(* password, no salt).  A content string is a record                       *)
(* [enc, pw, txt]: enc says whether the string carries the "ENC:" marker,  *)
(* pw is the password it was encrypted under and txt the plaintext.        *)
(***************************************************************************)
EXTENDS Naturals, Sequences, FiniteSets, TLC

\* ---------------------------------------------------------------- bounds
MaxPosts == 3
MaxSlots == 1
MaxFaults == 1
MaxOps == 2
MaxEdits == 3
MaxCalls == 2
MaxId == 2
MaxPw == 1
MaxText == 2
MaxColumns == 2
MaxTasks == 2
MaxSessionOps == 3
MaxSessionFaults == 2
MaxOrderOps == 4
MaxLen == 2
MaxAuth == 2
MaxAuthPosts == 3
MaxWrites == 3
MaxRetryOps == 3
MaxOverlap == 2

\* ------------------------------------------------------------- constants
Tables == {"columns", "tasks", "ideas", "documents", "documentFolders"}
Kinds == {"columns", "tasks", "ideaColumns", "ideas", "documents", "documentFolders"}
Slots == 1..MaxSlots

VARIABLES
    remote,                 \* the five backend tables: table -> set of records
    post,                   \* the handlePost invocations under way
    local,                  \* the App's six state arrays
    unlockedColumns,        \* column id -> password (0: no entry)
    unlockedFolders,        \* folder id -> password (0: no entry)
    lastUpdate,             \* task id -> the content updateTask was last called with
    syncStatus, isInitialLoad,
    isSavingRef, isRefreshingRef, needsSyncAfterDragRef,
    syncTimerRef,           \* the pending debounced syncFn, if any
    cache,                  \* localStorage zentask_data_<user>, if any
    dirty,                  \* state slices set since the effects last ran
    calls,                  \* requests of the client that are in flight
    encrypting,             \* updateTask calls waiting for encryptContent
    active,                 \* the item being dragged, if any
    pushBy,                 \* who waits for the answer of each handlePost
    retryFolders,           \* documentFolders as handleRetrySync's closure holds it
    reqNo, faults, ops,     \* numbers of requests, failures and user events
    stopped,                \* a push has stopped between its two phases
    currentUser,            \* the logged-in user (0: none, the login screen is shown)
    offlineQueue,           \* localStorage zentask_offline_queue, if any
    saveTimer,              \* the pending timer of saveUserDataDebounced, if any
    posted,                 \* the step just taken has posted DATA_CHANGED to the channel
    applied,                \* what the page held when it was last reloaded
    arg,                    \* the arguments a function under study is called with
    result,                 \* what it has returned or thrown so far
    users,                  \* the records of the users table
    auth,                   \* the invocations of the auth handler under way
    tabs,                   \* the browser tabs that share the broadcast channel
    writeNo,                \* number of the writes the tabs have started
    pulled                  \* tab -> the pulls it has started, by the write that caused them

serverVars == <<remote, post>>
clientVars == <<local, unlockedColumns, unlockedFolders, lastUpdate, syncStatus, isInitialLoad, isSavingRef, isRefreshingRef,
                needsSyncAfterDragRef, syncTimerRef, cache, dirty, calls, encrypting, active,
                pushBy, retryFolders, ops>>
sessionVars == <<currentUser, offlineQueue, saveTimer, applied>>
tabVars == <<tabs, writeNo, pulled>>
extraVars == <<arg, result, users, auth, tabVars>>
vars == <<serverVars, clientVars, reqNo, faults, stopped, sessionVars, posted, extraVars>>

\* ------------------------------------------------------- content strings
Plain(v) == [enc |-> FALSE, pw |-> 0, txt |-> v]
isEncryptedContent(c) == c.enc
encryptContent(c, password) == [enc |-> TRUE, pw |-> password, txt |-> c.txt]

\* ------------------------------------------------------------- entities
Entity(id, columnId, title, content) ==
    [id |-> id, recordId |-> 0, columnId |-> columnId, folderId |-> 0,
     title |-> title, content |-> content, completed |-> FALSE,
     isEncrypted |-> FALSE, encryptionSalt |-> 0]

EmptyData == [k \in Kinds |-> << >>]

\* The field map of a remote record; rid is the backend's record_id.
Fields(e, type, index) ==
    [rid |-> 0, id |-> e.id, column_id |-> e.columnId, folder_id |-> e.folderId,
     title |-> e.title, content |-> e.content, completed |-> e.completed,
     sort_order |-> index, type |-> type,
     isEncrypted |-> e.isEncrypted, encryptionSalt |-> e.encryptionSalt]

\* handlePost step 2: the new records of one table, in array order with
\* sort_order = index.  Column records carry no isEncrypted/encryptionSalt,
\* task and idea records no title, and so on: a field the code does not
\* write is left at its absent value.
ColumnFields(e, type, index) ==
    [Fields(e, type, index) EXCEPT !.column_id = 0, !.folder_id = 0, !.content = Plain(0),
        !.completed = FALSE, !.isEncrypted = FALSE, !.encryptionSalt = 0]
TaskFields(e, index) ==
    [Fields(e, "", index) EXCEPT !.folder_id = 0, !.title = Plain(0),
        !.isEncrypted = FALSE, !.encryptionSalt = 0]
IdeaFields(e, index) ==
    [Fields(e, "", index) EXCEPT !.folder_id = 0, !.title = Plain(0), !.completed = FALSE,
        !.isEncrypted = FALSE, !.encryptionSalt = 0]
DocumentFields(e, index) ==
    [Fields(e, "", index) EXCEPT !.column_id = 0, !.completed = FALSE,
        !.isEncrypted = FALSE, !.encryptionSalt = 0]
FolderFields(e, index) ==
    [Fields(e, "", index) EXCEPT !.column_id = 0, !.folder_id = 0, !.content = Plain(0),
        !.completed = FALSE]

PostRecords(data, t) ==
    CASE t = "columns" ->
            [i \in 1..Len(data.columns) |-> ColumnFields(data.columns[i], "task", i - 1)]
            \o [i \in 1..Len(data.ideaColumns) |->
                    ColumnFields(data.ideaColumns[i], "idea", i - 1)]
      [] t = "tasks" -> [i \in 1..Len(data.tasks) |-> TaskFields(data.tasks[i], i - 1)]
      [] t = "ideas" -> [i \in 1..Len(data.ideas) |-> IdeaFields(data.ideas[i], i - 1)]
      [] t = "documents" ->
            [i \in 1..Len(data.documents) |-> DocumentFields(data.documents[i], i - 1)]
      [] t = "documentFolders" ->
            [i \in 1..Len(data.documentFolders) |->
                FolderFields(data.documentFolders[i], i - 1)]

\* The backend assigns every new record a record_id no other record has.  The
\* ids are opaque: the i-th record that request number no creates in table t
\* gets the id below, which no other (no, t, i) yields.
TableIndex(t) ==
    CASE t = "columns" -> 0 [] t = "tasks" -> 1 [] t = "ideas" -> 2
      [] t = "documents" -> 3 [] t = "documentFolders" -> 4
NewRid(no, t, i) == no * 100 + TableIndex(t) * 10 + i

\* createRecords: one batch_create request (the lists here are far below the
\* batch size of 500).
createRecords(recs, no, t) == {[recs[i] EXCEPT !.rid = NewRid(no, t, i)] : i \in 1..Len(recs)}

\* ------------------------------------------------------ handlePost (POST)
FreePost ==
    [pc |-> "free", no |-> 0, data |-> EmptyData, old |-> [t \in Tables |-> {}],
     fetched |-> {}, created |-> {}, deleted |-> {}, failed |-> {}, errPhase |-> "",
     overlapped |-> FALSE]

\* The request arrives: handlePost starts and issues the five reads.
\* overlapped records that another request was not yet over at that time.
PostStart(p, no, data) ==
    /\ post[p].pc = "free"
    /\ LET busy == \E q \in DOMAIN post : post[q].pc # "free"
       IN post' = [q \in DOMAIN post |->
                    IF q = p THEN [FreePost EXCEPT !.pc = "run", !.no = no, !.data = data,
                                                   !.overlapped = busy]
                    ELSE IF post[q].pc # "free" THEN [post[q] EXCEPT !.overlapped = TRUE]
                    ELSE post[q]]
    /\ UNCHANGED remote

\* handlePost with the deletes issued as soon as the old ids are known.
PostDeleteEarly(p, t) ==
    /\ post[p].pc = "run"
    /\ post[p].fetched = Tables
    /\ t \notin post[p].deleted \cup post[p].failed
    /\ post[p].old[t] # {}
    /\ remote' = [remote EXCEPT ![t] = {r \in @ : r.rid \notin post[p].old[t]}]
    /\ post' = [post EXCEPT ![p].deleted = @ \cup {t}]

\* handlePost answering without awaiting the deletes.
PostDoneEarly(p) ==
    /\ post[p].pc = "run"
    /\ post[p].fetched = Tables
    /\ \A t \in Tables : Len(PostRecords(post[p].data, t)) = 0 \/ t \in post[p].created
    /\ post' = [post EXCEPT ![p].pc = "ok"]
    /\ UNCHANGED remote

\* Step 1: fetchTableRecords of one table answers; its record ids are kept.
PostFetch(p, t) ==
    /\ post[p].pc = "run"
    /\ t \notin post[p].fetched
    /\ post' = [post EXCEPT ![p].fetched = @ \cup {t},
                            ![p].old[t] = {r.rid : r \in remote[t]}]
    /\ UNCHANGED remote

\* A read fails: Promise.all rejects and handlePost throws.
PostFetchFail(p, t) ==
    /\ post[p].pc = "run"
    /\ t \notin post[p].fetched
    /\ post' = [post EXCEPT ![p].pc = "err", ![p].errPhase = "fetch",
                            ![p].failed = @ \cup {t}]
    /\ UNCHANGED remote

\* createRecords and deleteRecordsByIds return at once, sending nothing, for an
\* empty list: such a table's create (delete) is over as soon as it is called.
Created(p) == post[p].created \cup {t \in Tables : Len(PostRecords(post[p].data, t)) = 0}
Deleted(p) == post[p].deleted \cup {t \in Tables : post[p].old[t] = {}}

\* Step 3: createRecords of one table succeeds.  It is issued once all five
\* reads have answered; after a sibling create has failed the remaining
\* creates still run.
PostCreate(p, t) ==
    /\ post[p].pc = "run" \/ (post[p].pc = "err" /\ post[p].errPhase = "create")
    /\ post[p].fetched = Tables
    /\ t \notin Created(p) \cup post[p].failed
    /\ LET recs == PostRecords(post[p].data, t)
           new == createRecords(recs, post[p].no, t)
       IN /\ remote' = [remote EXCEPT ![t] = @ \cup new]
          /\ post' = [post EXCEPT ![p].created = @ \cup {t}]

\* createRecords of one table fails (only a non-empty list sends a request).
PostCreateFail(p, t) ==
    /\ post[p].pc = "run"
    /\ post[p].fetched = Tables
    /\ t \notin Created(p)
    /\ post' = [post EXCEPT ![p].pc = "err", ![p].errPhase = "create",
                            ![p].failed = @ \cup {t}]
    /\ UNCHANGED remote

\* Step 4: deleteRecordsByIds of one table succeeds.  It is issued once the
\* creates of all five tables have succeeded; the last one ends the request
\* with success.
PostDelete(p, t) ==
    /\ post[p].pc = "run" \/ (post[p].pc = "err" /\ post[p].errPhase = "delete")
    /\ post[p].fetched = Tables
    /\ Created(p) = Tables
    /\ t \notin Deleted(p) \cup post[p].failed
    /\ remote' = [remote EXCEPT ![t] = {r \in @ : r.rid \notin post[p].old[t]}]
    /\ post' = [post EXCEPT ![p].deleted = @ \cup {t}]

\* Every delete has succeeded: handlePost returns and the handler answers 200.
PostDone(p) ==
    /\ post[p].pc = "run"
    /\ post[p].fetched = Tables
    /\ Created(p) = Tables
    /\ Deleted(p) = Tables
    /\ post' = [post EXCEPT ![p].pc = "ok"]
    /\ UNCHANGED remote

\* deleteRecordsByIds of one table fails (only a non-empty list sends a request).
PostDeleteFail(p, t) ==
    /\ post[p].pc = "run"
    /\ post[p].fetched = Tables
    /\ Created(p) = Tables
    /\ t \notin Deleted(p)
    /\ post' = [post EXCEPT ![p].pc = "err", ![p].errPhase = "delete",
                            ![p].failed = @ \cup {t}]
    /\ UNCHANGED remote

\* The function instance stops (crash, platform timeout) wherever it is.
PostCrash(p) ==
    /\ post[p].pc = "run"
    /\ post' = [post EXCEPT ![p].pc = "crashed"]
    /\ UNCHANGED remote

\* The response has been sent (or the connection dropped): the invocation is over.
PostReturn(p) ==
    /\ post[p].pc \in {"ok", "err", "crashed"}
    /\ post' = [post EXCEPT ![p] = FreePost]
    /\ UNCHANGED remote

\* ------------------------------------------------ api/feishu/record.ts
\* createRecord: the fields written for a new record of the table.
createFields(table, e, type, sortOrder) ==
    CASE table = "columns" ->
            [Fields(e, type, sortOrder) EXCEPT !.column_id = 0, !.folder_id = 0,
                !.content = Plain(0), !.completed = FALSE]
      [] table = "tasks" -> TaskFields(e, sortOrder)
      [] table = "ideas" -> IdeaFields(e, sortOrder)
      [] table = "documents" ->
            [Fields(e, "", sortOrder) EXCEPT !.column_id = 0, !.completed = FALSE]
      [] table = "documentFolders" -> FolderFields(e, sortOrder)

\* updateRecord: the fields of record r the PUT overwrites with those of the
\* request f.  isEncrypted and encryptionSalt are undefined in every request
\* the client makes, so JSON.stringify drops them and they stay as they are.
updateFields(table, r, f) ==
    CASE table \in {"tasks", "ideas"} ->
            [r EXCEPT !.column_id = f.column_id, !.content = f.content,
                      !.completed = f.completed, !.sort_order = f.sort_order]
      [] table = "columns" ->
            [r EXCEPT !.title = f.title, !.type = f.type, !.sort_order = f.sort_order]
      [] table = "documents" ->
            [r EXCEPT !.folder_id = f.folder_id, !.title = f.title, !.content = f.content,
                      !.sort_order = f.sort_order]
      [] table = "documentFolders" ->
            [r EXCEPT !.title = f.title, !.sort_order = f.sort_order]

\* ------------------------------------------------------ handleGet (GET)
\* Array.sort by sort_order; records with equal sort_order keep the order the
\* backend lists them in, which is the order of their record ids here.
RECURSIVE SortRecords(_)
SortRecords(S) ==
    IF S = {} THEN << >>
    ELSE LET m == CHOOSE r \in S : \A q \in S :
                      \/ r.sort_order < q.sort_order
                      \/ (r.sort_order = q.sort_order /\ r.rid <= q.rid)
         IN <<m>> \o SortRecords(S \ {m})

ColumnOf(r) ==
    [Entity(r.id, 0, r.title, Plain(0)) EXCEPT !.recordId = r.rid,
        !.isEncrypted = r.isEncrypted, !.encryptionSalt = r.encryptionSalt]
TaskOf(r) ==
    [Entity(r.id, r.column_id, Plain(0), r.content) EXCEPT !.recordId = r.rid,
        !.completed = r.completed]
IdeaOf(r) == [Entity(r.id, r.column_id, Plain(0), r.content) EXCEPT !.recordId = r.rid]
DocumentOf(r) ==
    [Entity(r.id, 0, r.title, r.content) EXCEPT !.recordId = r.rid, !.folderId = r.folder_id]
FolderOf(r) ==
    [Entity(r.id, 0, r.title, Plain(0)) EXCEPT !.recordId = r.rid,
        !.isEncrypted = r.isEncrypted, !.encryptionSalt = r.encryptionSalt]

MapSeq(Op(_), s) == [i \in 1..Len(s) |-> Op(s[i])]

handleGet(rem) ==
    LET cols == SortRecords(rem.columns)
    IN [columns |-> MapSeq(ColumnOf, SelectSeq(cols, LAMBDA r : r.type # "idea")),
        ideaColumns |-> MapSeq(ColumnOf, SelectSeq(cols, LAMBDA r : r.type = "idea")),
        tasks |-> MapSeq(TaskOf, SortRecords(rem.tasks)),
        ideas |-> MapSeq(IdeaOf, SortRecords(rem.ideas)),
        documents |-> MapSeq(DocumentOf, SortRecords(rem.documents)),
        documentFolders |-> MapSeq(FolderOf, SortRecords(rem.documentFolders))]

\* ---------------------------------------------------- feishuService (client)
Ids == 1..MaxId
Passwords == 1..MaxPw
Texts == 1..MaxText
NoPasswords == [i \in Ids |-> 0]
\* What a user may type into a password prompt: the passwords in use and one
\* that is none of them.
Candidates == 1..(MaxPw + 1)

\* Array.findIndex by id: the first position holding the id, 0 if there is none.
findIndex(s, id) ==
    IF \E i \in DOMAIN s : s[i].id = id
    THEN CHOOSE i \in DOMAIN s : s[i].id = id /\ \A j \in 1..(i - 1) : s[j].id # id
    ELSE 0

Without(s, id) == SelectSeq(s, LAMBDA e : e.id # id)

\* encryptDataForSync without its filters: every task and idea is passed on.
encryptDataForSyncUnfiltered(data, passwords) ==
    LET cols == data.columns \o data.ideaColumns
        enc == {cols[i].id : i \in {j \in DOMAIN cols : cols[j].isEncrypted}}
        Enc(e) == IF e.columnId \in enc /\ passwords[e.columnId] # 0
                     /\ ~isEncryptedContent(e.content)
                  THEN [e EXCEPT !.content = encryptContent(e.content, passwords[e.columnId])]
                  ELSE e
    IN [data EXCEPT !.tasks = [i \in DOMAIN data.tasks |-> Enc(data.tasks[i])],
                    !.ideas = [i \in DOMAIN data.ideas |-> Enc(data.ideas[i])]]

\* encryptDataForSync: tasks of an encrypted column without a password whose
\* content is not tagged are left out, those of a column with a password are
\* encrypted, titles are encrypted or replaced by the placeholder (text 0).
encryptDataForSync(data, passwords) ==
    LET cols == data.columns \o data.ideaColumns
        allEncryptedColumnIds == {cols[i].id : i \in {j \in DOMAIN cols : cols[j].isEncrypted}}
        encryptedWithPassword == {c \in allEncryptedColumnIds : c \in DOMAIN passwords /\ passwords[c] # 0}
        Keep(e) == ~(e.columnId \in allEncryptedColumnIds
                     /\ e.columnId \notin encryptedWithPassword
                     /\ ~isEncryptedContent(e.content))
        Enc(e) == IF e.columnId \in encryptedWithPassword /\ ~isEncryptedContent(e.content)
                  THEN [e EXCEPT !.content = encryptContent(e.content, passwords[e.columnId])]
                  ELSE e
        EncCol(c) == IF c.isEncrypted /\ ~isEncryptedContent(c.title)
                     THEN IF c.id \in encryptedWithPassword
                          THEN [c EXCEPT !.title = encryptContent(c.title, passwords[c.id])]
                          ELSE [c EXCEPT !.title = Plain(0)]
                     ELSE c
    IN [data EXCEPT !.tasks = MapSeq(Enc, SelectSeq(data.tasks, Keep)),
                    !.ideas = MapSeq(Enc, SelectSeq(data.ideas, Keep)),
                    !.columns = MapSeq(EncCol, data.columns),
                    !.ideaColumns = MapSeq(EncCol, data.ideaColumns)]

\* saveUserDataImmediate step 2: the body of the POST.  Without a password map,
\* or with an empty one, the snapshot is sent as it is.
dataToSave(data, passwords) ==
    IF \E i \in DOMAIN passwords : passwords[i] # 0
    THEN encryptDataForSync(data, passwords)
    ELSE data

\* A request of the client to /api/feishu/record or a GET of /api/feishu/sync
\* that has not been answered: op is create, update, delete or get, f the
\* fields sent, h the handler that waits for the answer, id the entity the
\* handler is about, rest what the handler still has to delete, cl the arrays
\* its closure holds, first whether this is the first request the handler
\* makes, gate what the client knew of the entity's column when it sent f.
NoFields == Fields(Entity(0, 0, Plain(0), Plain(0)), "", 0)
Call(no, op, table, rid, f, h, id) ==
    [no |-> no, op |-> op, table |-> table, rid |-> rid, f |-> f, h |-> h, id |-> id,
     rest |-> << >>, cl |-> EmptyData, first |-> TRUE, gate |-> "open"]

NoPush == [h |-> "", leak |-> FALSE, plain |-> FALSE]

\* What the client knows of column columnId when it sends an entity of it:
\* "locked" (isEncrypted, no password in the map), "unlocked" (isEncrypted,
\* password in the map) or "open".
Gate(cols, passwords, columnId) ==
    LET i == findIndex(cols, columnId)
    IN IF i = 0 THEN "open"
       ELSE IF ~cols[i].isEncrypted THEN "open"
       ELSE IF passwords[columnId] = 0 THEN "locked" ELSE "unlocked"

\* ------------------------------------------------------------ App: helpers
refs == <<isSavingRef, isRefreshingRef, needsSyncAfterDragRef>>
maps == <<unlockedColumns, unlockedFolders>>

NoDrag == [type |-> "", id |-> 0]

\* isLocked as App passes it to Column, which then draws the locked overlay
\* instead of the task list.
isLocked(col) == col.isEncrypted /\ unlockedColumns[col.id] = 0

\* The task cards on screen: those of a column that is drawn unlocked.
Shown(task) ==
    \E i \in DOMAIN local.columns :
        local.columns[i].id = task.columnId /\ ~isLocked(local.columns[i])

\* arrayMove of @dnd-kit/sortable: the element at from is taken out and put
\* in at to.
arrayMove(s, from, to) ==
    LET rest == [i \in 1..(Len(s) - 1) |-> IF i < from THEN s[i] ELSE s[i + 1]]
    IN [i \in 1..Len(s) |-> IF i < to THEN rest[i] ELSE IF i = to THEN s[from] ELSE rest[i - 1]]

\* debouncedSync: the pending timer, whatever it was armed for, is cleared and
\* one is armed for syncFn.
debouncedSync(syncFn) ==
    /\ syncTimerRef' = {syncFn}
    /\ syncStatus' = "syncing"

SyncFn(table, rid, f, id) == [table |-> table, rid |-> rid, f |-> f, id |-> id]

\* The setTimeout callback of debouncedSync runs: syncFn sends its request.
TimerFire ==
    /\ dirty = {}
    /\ Cardinality(calls) < MaxCalls
    /\ \E fn \in syncTimerRef :
        /\ calls' = calls \cup
              {[Call(reqNo + 1, "update", fn.table, fn.rid, fn.f, "debouncedSync", fn.id)
                  EXCEPT !.gate = IF fn.table = "tasks"
                                  THEN Gate(local.columns, unlockedColumns, fn.f.column_id)
                                  ELSE "open"]}
        /\ reqNo' = reqNo + 1
    /\ syncTimerRef' = {}
    /\ UNCHANGED <<serverVars, local, maps, lastUpdate, syncStatus, isInitialLoad, refs, cache,
                   dirty, encrypting, active, pushBy, retryFolders>>

\* ------------------------------------------------- App: columns and tasks
handleCreateColumn(id, title, isEncrypted, password) ==
    LET columnToAdd == [Entity(id, 0, Plain(title), Plain(0)) EXCEPT
                            !.isEncrypted = isEncrypted,
                            !.encryptionSalt = IF isEncrypted THEN password ELSE 0]
    IN /\ Len(local.columns) < MaxColumns
       /\ Cardinality(calls) < MaxCalls
       /\ isEncrypted <=> password # 0
       /\ unlockedColumns' = IF isEncrypted THEN [unlockedColumns EXCEPT ![id] = password]
                             ELSE unlockedColumns
       /\ local' = [local EXCEPT !.columns = Append(@, columnToAdd)]
       /\ dirty' = {"columns"} \cup (IF isEncrypted THEN {"unlockedColumns"} ELSE {})
       /\ syncStatus' = "syncing"
       /\ calls' = calls \cup
             {Call(reqNo + 1, "create", "columns", 0,
                   createFields("columns", columnToAdd, "task", Len(local.columns)),
                   "handleCreateColumn", id)}
       /\ reqNo' = reqNo + 1
       /\ UNCHANGED <<serverVars, unlockedFolders, lastUpdate, isInitialLoad, refs, syncTimerRef,
                      cache, encrypting, active, pushBy, retryFolders>>

deleteColumn(id) ==
    LET i == findIndex(local.columns, id)
        column == local.columns[i]
        tasksToDelete == SelectSeq(local.tasks, LAMBDA t : t.columnId = id)
        taskRids == MapSeq(LAMBDA t : t.recordId,
                           SelectSeq(tasksToDelete, LAMBDA t : t.recordId # 0))
    IN /\ i # 0
       /\ Cardinality(calls) < MaxCalls
       /\ local' = [local EXCEPT !.columns = Without(@, id),
                                 !.tasks = SelectSeq(@, LAMBDA t : t.columnId # id)]
       /\ dirty' = {"columns", "tasks"}
       /\ IF column.recordId # 0
          THEN /\ calls' = calls \cup
                     {[Call(reqNo + 1, "delete", "columns", column.recordId, NoFields,
                            "deleteColumn", id) EXCEPT !.rest = taskRids]}
               /\ reqNo' = reqNo + 1
               /\ syncStatus' = "syncing"
          ELSE IF taskRids # << >>
          THEN /\ calls' = calls \cup
                     {[Call(reqNo + 1, "delete", "tasks", Head(taskRids), NoFields,
                            "deleteColumn", id) EXCEPT !.rest = Tail(taskRids)]}
               /\ reqNo' = reqNo + 1
               /\ syncStatus' = "syncing"
          ELSE /\ syncStatus' = "synced"
               /\ UNCHANGED <<calls, reqNo>>
       /\ UNCHANGED <<serverVars, maps, lastUpdate, isInitialLoad, refs, syncTimerRef, cache,
                      encrypting, active, pushBy, retryFolders>>

\* updateColumnTitle without its test of column.recordId: the update is armed
\* for a column that has no record yet.
updateColumnTitleUnguarded(id, title) ==
    LET i == findIndex(local.columns, id)
        column == local.columns[i]
    IN /\ i # 0
       /\ ~isLocked(column)
       /\ local' = [local EXCEPT !.columns =
                        MapSeq(LAMBDA col : IF col.id = id THEN [col EXCEPT !.title = Plain(title)]
                                            ELSE col, @)]
       /\ dirty' = {"columns"}
       /\ debouncedSync(SyncFn("columns", column.recordId,
                 ColumnFields([column EXCEPT !.title = Plain(title)], "task", 0), id))
       /\ UNCHANGED <<serverVars, maps, lastUpdate, isInitialLoad, refs, cache, calls, reqNo,
                      encrypting, active, pushBy, retryFolders>>

updateColumnTitle(id, title) ==
    LET i == findIndex(local.columns, id)
        column == local.columns[i]
    IN /\ i # 0
       /\ ~isLocked(column)
       /\ local' = [local EXCEPT !.columns =
                        MapSeq(LAMBDA col : IF col.id = id THEN [col EXCEPT !.title = Plain(title)]
                                            ELSE col, @)]
       /\ dirty' = {"columns"}
       /\ IF column.recordId # 0
          THEN debouncedSync(SyncFn("columns", column.recordId,
                    ColumnFields([column EXCEPT !.title = Plain(title)], "task", 0), id))
          ELSE UNCHANGED <<syncTimerRef, syncStatus>>
       /\ UNCHANGED <<serverVars, maps, lastUpdate, isInitialLoad, refs, cache, calls, reqNo,
                      encrypting, active, pushBy, retryFolders>>

createTask(columnId, id) ==
    LET i == findIndex(local.columns, columnId)
        column == local.columns[i]
        newTask == Entity(id, columnId, Plain(0), Plain(0))
        contentToSync == IF column.isEncrypted /\ unlockedColumns[columnId] # 0
                         THEN encryptContent(newTask.content, unlockedColumns[columnId])
                         ELSE newTask.content
    IN /\ i # 0
       /\ ~isLocked(column)
       /\ Len(local.tasks) < MaxTasks
       /\ Cardinality(calls) < MaxCalls
       /\ local' = [local EXCEPT !.tasks = Append(@, newTask)]
       /\ dirty' = {"tasks"}
       /\ syncStatus' = "syncing"
       /\ calls' = calls \cup
             {[Call(reqNo + 1, "create", "tasks", 0,
                    createFields("tasks", [newTask EXCEPT !.content = contentToSync], "",
                                 Len(local.tasks)),
                    "createTask", id)
                 EXCEPT !.gate = Gate(local.columns, unlockedColumns, columnId)]}
       /\ reqNo' = reqNo + 1
       /\ UNCHANGED <<serverVars, maps, lastUpdate, isInitialLoad, refs, syncTimerRef, cache,
                      encrypting, active, pushBy, retryFolders>>

deleteTask(id) ==
    LET i == findIndex(local.tasks, id)
        task == local.tasks[i]
    IN /\ i # 0
       /\ Shown(task)
       /\ Cardinality(calls) < MaxCalls
       /\ local' = [local EXCEPT !.tasks = Without(@, id)]
       /\ dirty' = {"tasks"}
       /\ IF task.recordId # 0
          THEN /\ syncStatus' = "syncing"
               /\ calls' = calls \cup {Call(reqNo + 1, "delete", "tasks", task.recordId,
                                            NoFields, "deleteTask", id)}
               /\ reqNo' = reqNo + 1
          ELSE UNCHANGED <<syncStatus, calls, reqNo>>
       /\ UNCHANGED <<serverVars, maps, lastUpdate, isInitialLoad, refs, syncTimerRef, cache,
                      encrypting, active, pushBy, retryFolders>>

\* updateTask up to its debouncedSync call or, for a task of an encrypted and
\* unlocked column, up to its await of encryptContent.
updateTask(id, content) ==
    LET i == findIndex(local.tasks, id)
        task == local.tasks[i]
        password == unlockedColumns[task.columnId]
    IN /\ i # 0
       /\ Shown(task)
       /\ local' = [local EXCEPT !.tasks =
                        MapSeq(LAMBDA t : IF t.id = id THEN [t EXCEPT !.content = Plain(content)]
                                          ELSE t, @)]
       /\ dirty' = {"tasks"}
       /\ lastUpdate' = [lastUpdate EXCEPT ![id] = content]
       /\ IF task.recordId = 0
          THEN UNCHANGED <<encrypting, syncTimerRef, syncStatus>>
          ELSE IF Gate(local.columns, unlockedColumns, task.columnId) = "unlocked"
          THEN /\ encrypting' = encrypting \cup
                     {[task |-> task, content |-> Plain(content), password |-> password]}
               /\ UNCHANGED <<syncTimerRef, syncStatus>>
          ELSE /\ debouncedSync(SyncFn("tasks", task.recordId,
                       TaskFields([task EXCEPT !.content = Plain(content)], 0), id))
               /\ UNCHANGED encrypting
       /\ UNCHANGED <<serverVars, maps, isInitialLoad, refs, cache, calls, reqNo, active, pushBy,
                      retryFolders>>

\* encryptContent resolves: updateTask goes on to its debouncedSync call.
\* Nothing orders the cipher calls of two updates among themselves.
EncryptDone(e) ==
    /\ dirty = {}
    /\ e \in encrypting
    /\ encrypting' = encrypting \ {e}
    /\ debouncedSync(SyncFn("tasks", e.task.recordId,
            TaskFields([e.task EXCEPT !.content = encryptContent(e.content, e.password)], 0),
            e.task.id))
    /\ UNCHANGED <<serverVars, local, maps, lastUpdate, isInitialLoad, refs, cache, dirty, calls,
                   reqNo, active, pushBy, retryFolders>>

toggleComplete(id) ==
    LET i == findIndex(local.tasks, id)
        task == local.tasks[i]
        newCompleted == ~task.completed
    IN /\ i # 0
       /\ Shown(task)
       /\ Cardinality(calls) < MaxCalls
       /\ local' = [local EXCEPT !.tasks =
                        MapSeq(LAMBDA t : IF t.id = id THEN [t EXCEPT !.completed = newCompleted]
                                          ELSE t, @)]
       /\ dirty' = {"tasks"}
       /\ IF task.recordId # 0
          THEN /\ syncStatus' = "syncing"
               /\ calls' = calls \cup
                     {[Call(reqNo + 1, "update", "tasks", task.recordId,
                            TaskFields([task EXCEPT !.completed = newCompleted], 0),
                            "toggleComplete", id)
                         EXCEPT !.gate = Gate(local.columns, unlockedColumns, task.columnId)]}
               /\ reqNo' = reqNo + 1
          ELSE UNCHANGED <<syncStatus, calls, reqNo>>
       /\ UNCHANGED <<serverVars, maps, lastUpdate, isInitialLoad, refs, syncTimerRef, cache,
                      encrypting, active, pushBy, retryFolders>>

\* --------------------------------------------------------- App: documents
\* deleteDocument as the user calls it.
deleteDocument(id) ==
    LET i == findIndex(local.documents, id)
        doc == local.documents[i]
    IN /\ i # 0
       /\ Cardinality(calls) < MaxCalls
       /\ local' = [local EXCEPT !.documents = Without(@, id)]
       /\ dirty' = {"documents"}
       /\ IF doc.recordId # 0
          THEN /\ syncStatus' = "syncing"
               /\ calls' = calls \cup {Call(reqNo + 1, "delete", "documents", doc.recordId,
                                            NoFields, "deleteDocument", id)}
               /\ reqNo' = reqNo + 1
          ELSE UNCHANGED <<syncStatus, calls, reqNo>>
       /\ UNCHANGED <<serverVars, maps, lastUpdate, isInitialLoad, refs, syncTimerRef, cache,
                      encrypting, active, pushBy, retryFolders>>

\* updateDocument, called by the editor for a document the user can open (its
\* folder, if encrypted, is unlocked): the request names title, content and
\* updatedAt only, so updateRecord fills in folder_id '' and sort_order 0.
updateDocument(id, title, content) ==
    LET i == findIndex(local.documents, id)
        doc == local.documents[i]
        j == findIndex(local.documentFolders, doc.folderId)
        edited == [doc EXCEPT !.title = Plain(title), !.content = Plain(content)]
    IN /\ i # 0
       /\ j # 0 => (~local.documentFolders[j].isEncrypted \/ unlockedFolders[doc.folderId] # 0)
       /\ local' = [local EXCEPT !.documents =
                        MapSeq(LAMBDA d : IF d.id = id
                                          THEN [d EXCEPT !.title = Plain(title),
                                                         !.content = Plain(content)]
                                          ELSE d, @)]
       /\ dirty' = {"documents"}
       /\ IF doc.recordId # 0
          THEN debouncedSync(SyncFn("documents", doc.recordId,
                    DocumentFields([edited EXCEPT !.folderId = 0], 0), id))
          ELSE UNCHANGED <<syncTimerRef, syncStatus>>
       /\ UNCHANGED <<serverVars, maps, lastUpdate, isInitialLoad, refs, cache, calls, reqNo,
                      encrypting, active, pushBy, retryFolders>>

\* deleteDocumentFolder from the document rest[1] of its loop on: cl holds the
\* documents and documentFolders arrays of the render the handler was called
\* in, which is what it and the deleteDocument it calls read.  The loop runs
\* up to the next await of a deleteRecord; when the loop is over the folder is
\* taken out of the state and its own record deleted.  others are the
\* requests in flight besides the handler's own.
FolderLoop(id, cl, rest, first, others) ==
    LET RidOf(docId) == cl.documents[findIndex(cl.documents, docId)].recordId
        k == IF \E i \in DOMAIN rest : RidOf(rest[i]) # 0
             THEN CHOOSE i \in DOMAIN rest :
                      RidOf(rest[i]) # 0 /\ \A j \in 1..(i - 1) : RidOf(rest[j]) = 0
             ELSE 0
        f == findIndex(cl.documentFolders, id)
        folderRid == IF f = 0 THEN 0 ELSE cl.documentFolders[f].recordId
    IN IF k # 0
       THEN /\ local' = [local EXCEPT !.documents = Without(cl.documents, rest[k])]
            /\ dirty' = {"documents"}
            /\ syncStatus' = "syncing"
            /\ calls' = others \cup
                  {[Call(reqNo + 1, "delete", "documents", RidOf(rest[k]), NoFields,
                         "deleteDocumentFolder", id)
                      EXCEPT !.rest = SubSeq(rest, k + 1, Len(rest)), !.cl = cl,
                             !.first = first]}
            /\ reqNo' = reqNo + 1
            /\ UNCHANGED unlockedFolders
       ELSE /\ local' = [local EXCEPT
                            !.documents = IF rest = << >> THEN @
                                          ELSE Without(cl.documents, rest[Len(rest)]),
                            !.documentFolders = Without(cl.documentFolders, id)]
            /\ dirty' = {"documentFolders"} \cup (IF rest = << >> THEN {} ELSE {"documents"})
            /\ unlockedFolders' = [unlockedFolders EXCEPT ![id] = 0]
            /\ IF folderRid # 0
               THEN /\ syncStatus' = "syncing"
                    /\ calls' = others \cup
                          {[Call(reqNo + 1, "delete", "documentFolders", folderRid, NoFields,
                                 "deleteDocumentFolder", id) EXCEPT !.first = first]}
                    /\ reqNo' = reqNo + 1
               ELSE /\ calls' = others
                    /\ UNCHANGED <<syncStatus, reqNo>>

deleteDocumentFolder(id) ==
    LET folderDocs == SelectSeq(local.documents, LAMBDA d : d.folderId = id)
    IN /\ findIndex(local.documentFolders, id) # 0
       /\ Cardinality(calls) < MaxCalls
       /\ FolderLoop(id, local, MapSeq(LAMBDA d : d.id, folderDocs), TRUE, calls)
       /\ UNCHANGED <<serverVars, unlockedColumns, lastUpdate, isInitialLoad, refs, syncTimerRef,
                      cache, encrypting, active, pushBy, retryFolders>>

\* --------------------------------------------------------- App: unlocking
\* verifyPassword-style check of onUnlock: the hash of the password under the
\* stored salt equals the stored hash.  encryptionSalt stands for "salt:hash"
\* and is the password it was made from.
decryptContent(c, password) ==
    IF isEncryptedContent(c) /\ c.pw = password THEN Plain(c.txt) ELSE c

\* onUnlock of the UnlockDialog for column id: a wrong password changes
\* nothing; the right one is stored and the column's tasks are decrypted.
onUnlock(id, password) ==
    LET i == findIndex(local.columns, id)
        unlockingColumn == local.columns[i]
        columnTasks == SelectSeq(local.tasks, LAMBDA t : t.columnId = id)
        decryptedTasks == MapSeq(LAMBDA t : [t EXCEPT !.content = decryptContent(@, password)],
                                 columnTasks)
    IN /\ i # 0
       /\ isLocked(unlockingColumn)
       /\ unlockingColumn.encryptionSalt = password
       /\ unlockedColumns' = [unlockedColumns EXCEPT ![id] = password]
       /\ local' = [local EXCEPT !.tasks =
                        MapSeq(LAMBDA t : IF findIndex(decryptedTasks, t.id) # 0
                                          THEN decryptedTasks[findIndex(decryptedTasks, t.id)]
                                          ELSE t, @)]
       /\ dirty' = {"unlockedColumns", "tasks"}
       /\ UNCHANGED <<serverVars, unlockedFolders, lastUpdate, syncStatus, isInitialLoad, refs,
                      syncTimerRef, cache, calls, reqNo, encrypting, active, pushBy,
                      retryFolders>>

\* unlockDocumentFolder, called by DocumentList for a folder drawn locked:
\* the password typed into the prompt is stored when the folder has a salt;
\* the hash the handler computes is compared with nothing.
unlockDocumentFolder(id, password) ==
    LET i == findIndex(local.documentFolders, id)
        folder == local.documentFolders[i]
    IN /\ i # 0
       /\ folder.isEncrypted /\ unlockedFolders[id] = 0
       /\ folder.encryptionSalt # 0
       /\ unlockedFolders' = [unlockedFolders EXCEPT ![id] = password]
       /\ dirty' = {"unlockedFolders"}
       /\ UNCHANGED <<serverVars, local, unlockedColumns, lastUpdate, syncStatus, isInitialLoad,
                      refs, syncTimerRef, cache, calls, reqNo, encrypting, active, pushBy,
                      retryFolders>>

\* ------------------------------------------------------ App: drag and drop
onDragStart(type, id) ==
    /\ active = NoDrag
    /\ \/ type = "Column" /\ findIndex(local.columns, id) # 0
       \/ /\ type = "Task"
          /\ findIndex(local.tasks, id) # 0
          /\ Shown(local.tasks[findIndex(local.tasks, id)])
    /\ active' = [type |-> type, id |-> id]
    /\ UNCHANGED <<serverVars, local, maps, lastUpdate, syncStatus, isInitialLoad, refs,
                   syncTimerRef, cache, dirty, calls, reqNo, encrypting, pushBy, retryFolders>>

\* onDragOver of the dragged task over another task card or over a column.
onDragOver(overType, overId) ==
    LET activeIndex == findIndex(local.tasks, active.id)
        overIndex == findIndex(local.tasks, overId)
    IN /\ dirty = {}
       /\ active.type = "Task"
       /\ active.id # overId
       /\ activeIndex # 0
       /\ \/ /\ overType = "Task"
             /\ overIndex # 0
             /\ Shown(local.tasks[overIndex])
             /\ local' = [local EXCEPT !.tasks =
                   arrayMove([@ EXCEPT ![activeIndex].columnId = local.tasks[overIndex].columnId],
                             activeIndex, overIndex)]
          \/ /\ overType = "Column"
             /\ findIndex(local.columns, overId) # 0
             /\ local' = [local EXCEPT !.tasks =
                   arrayMove([@ EXCEPT ![activeIndex].columnId = overId],
                             activeIndex, activeIndex)]
       /\ dirty' = {"tasks"}
       /\ UNCHANGED <<serverVars, maps, lastUpdate, syncStatus, isInitialLoad, refs, syncTimerRef,
                      cache, calls, reqNo, encrypting, active, pushBy, retryFolders>>

onDragEnd(overId) ==
    /\ dirty = {}
    /\ active # NoDrag
    /\ active' = NoDrag
    /\ IF active.type = "Task"
       THEN /\ needsSyncAfterDragRef' = TRUE
            /\ UNCHANGED <<local, dirty>>
       ELSE /\ findIndex(local.columns, overId) # 0
            /\ IF active.id = overId \/ findIndex(local.columns, active.id) = 0
               THEN UNCHANGED <<local, dirty, needsSyncAfterDragRef>>
               ELSE /\ local' = [local EXCEPT !.columns =
                          arrayMove(@, findIndex(@, active.id), findIndex(@, overId))]
                    /\ dirty' = {"columns"}
                    /\ needsSyncAfterDragRef' = TRUE
    /\ UNCHANGED <<serverVars, maps, lastUpdate, syncStatus, isInitialLoad, isSavingRef,
                   isRefreshingRef, syncTimerRef, cache, calls, reqNo, encrypting, pushBy,
                   retryFolders>>

\* --------------------------------------------------- App: pulls and pushes
\* saveUserDataImmediate in a free invocation slot p: the POST body reaches
\* handlePost.  leak and plain say whether the body holds a task with untagged
\* content of a column that is locked, or unlocked, at this moment.
StartPush(p, h, data, passwords) ==
    LET sent == dataToSave(data, passwords)
        Untagged(g) == \E i \in DOMAIN sent.tasks :
                           /\ Gate(data.columns, unlockedColumns, sent.tasks[i].columnId) = g
                           /\ ~isEncryptedContent(sent.tasks[i].content)
    IN /\ \A q \in 1..(p - 1) : post[q].pc # "free"
       /\ PostStart(p, reqNo + 1, sent)
       /\ reqNo' = reqNo + 1
       /\ pushBy' = [pushBy EXCEPT ![p] =
                        [h |-> h, leak |-> Untagged("locked"), plain |-> Untagged("unlocked")]]

handleRefresh ==
    /\ dirty = {}
    /\ ~isRefreshingRef
    /\ ~isSavingRef
    /\ Cardinality(calls) < MaxCalls
    /\ isRefreshingRef' = TRUE
    /\ syncStatus' = "syncing"
    /\ calls' = calls \cup {Call(reqNo + 1, "get", "", 0, NoFields, "handleRefresh", 0)}
    /\ reqNo' = reqNo + 1
    /\ UNCHANGED <<serverVars, local, maps, lastUpdate, isInitialLoad, isSavingRef,
                   needsSyncAfterDragRef, syncTimerRef, cache, dirty, encrypting, active, pushBy,
                   retryFolders>>

\* The sync button: it is disabled while syncing and calls handleRetrySync
\* after an error or when offline, handleRefresh otherwise.
RefreshClick ==
    /\ syncStatus \in {"idle", "synced"}
    /\ handleRefresh

\* A DATA_CHANGED message of another tab of the same user arrives.
OnMessage ==
    /\ active = NoDrag
    /\ handleRefresh

handleRetrySync ==
    /\ syncStatus \in {"error", "offline"}
    /\ ~isSavingRef
    /\ isSavingRef' = TRUE
    /\ syncStatus' = "syncing"
    /\ \E p \in Slots :
          StartPush(p, "handleRetrySync", [local EXCEPT !.documentFolders = retryFolders],
                    unlockedColumns)
    /\ UNCHANGED <<local, maps, lastUpdate, isInitialLoad, isRefreshingRef,
                   needsSyncAfterDragRef, syncTimerRef, cache, dirty, calls, encrypting, active,
                   retryFolders>>

\* The effects React runs after a render in which state they depend on has
\* changed: the cache write, the sync after drag (which passes no passwords),
\* and the re-creation of the handleRetrySync callback, whose dependency list
\* has no documentFolders.
RunEffects ==
    LET save == /\ dirty \cap (Kinds \cup {"isInitialLoad"}) # {}
                /\ ~isInitialLoad
                /\ ~isRefreshingRef
        sync == /\ dirty \cap ((Kinds \ {"documentFolders"}) \cup {"isInitialLoad"}) # {}
                /\ needsSyncAfterDragRef
                /\ ~isInitialLoad
        retry == dirty \cap ((Kinds \ {"documentFolders"}) \cup {"unlockedColumns"}) # {}
    IN /\ dirty # {}
       /\ dirty' = {}
       /\ cache' = IF save THEN {local} ELSE cache
       /\ retryFolders' = IF retry THEN local.documentFolders ELSE retryFolders
       /\ IF sync
          THEN /\ needsSyncAfterDragRef' = FALSE
               /\ syncStatus' = "syncing"
               /\ isSavingRef' = TRUE
               /\ \E p \in Slots : StartPush(p, "syncAfterDrag", local, NoPasswords)
          ELSE /\ UNCHANGED <<needsSyncAfterDragRef, syncStatus, isSavingRef, serverVars, reqNo,
                              pushBy>>
       /\ UNCHANGED <<local, maps, lastUpdate, isInitialLoad, isRefreshingRef, syncTimerRef,
                      calls, encrypting, active>>

\* The POST is answered (pc ok) or fails: the then/catch/finally of whoever
\* called saveUserDataImmediate runs.
PushAnswer(p) ==
    /\ dirty = {}
    /\ pushBy[p].h \in {"handleRetrySync", "syncAfterDrag"}
    /\ PostReturn(p)
    /\ pushBy' = [pushBy EXCEPT ![p] = NoPush]
    /\ syncStatus' = IF post[p].pc = "ok" THEN "synced" ELSE "error"
    /\ posted' = (post[p].pc = "ok" /\ currentUser # 0)
    /\ isSavingRef' = FALSE
    /\ UNCHANGED <<local, maps, lastUpdate, isInitialLoad, isRefreshingRef,
                   needsSyncAfterDragRef, syncTimerRef, cache, dirty, calls, reqNo, encrypting,
                   active, retryFolders>>

\* ------------------------------------------------ answers to the requests
loadFromLocalStorage == IF cache = {} THEN EmptyData ELSE CHOOSE d \in cache : TRUE

\* handleRefresh overwrites only without this test (used to test C32).
hasCloudDataAlways(data) == TRUE

\* handleRefresh: the cloud holds something in one of the six collections.
hasCloudData(data) == \E k \in Kinds : Len(data[k]) > 0

\* The answer to a GET, or its failure (ok false), reaches the load effect's
\* then/catch/finally or handleRefresh.
GetAnswer(c, ok) ==
    LET data == handleGet(remote)
        some(ks) == \E k \in ks : Len(data[k]) > 0
    IN /\ dirty = {}
       /\ c \in calls
       /\ c.op = "get"
       /\ calls' = calls \ {c}
       /\ IF c.h = "load"
          THEN /\ isInitialLoad' = FALSE
               /\ syncStatus' = IF ok THEN "synced" ELSE "offline"
               /\ IF ok /\ some(Kinds \ {"ideaColumns"})
                  THEN /\ local' = data
                       /\ cache' = {data}
                       /\ dirty' = Kinds \cup {"isInitialLoad"}
                  ELSE /\ local' = loadFromLocalStorage
                       /\ dirty' = (IF cache = {} THEN {} ELSE Kinds) \cup {"isInitialLoad"}
                       /\ UNCHANGED cache
               /\ UNCHANGED isRefreshingRef
          ELSE /\ isRefreshingRef' = FALSE
               /\ syncStatus' = IF ok THEN "synced" ELSE "error"
               /\ IF ok /\ hasCloudData(data)
                  THEN /\ local' = data
                       /\ cache' = {data}
                       /\ dirty' = Kinds
                  ELSE UNCHANGED <<local, cache, dirty>>
               /\ UNCHANGED isInitialLoad
       /\ UNCHANGED <<serverVars, maps, lastUpdate, isSavingRef, needsSyncAfterDragRef,
                      syncTimerRef, reqNo, encrypting, active, pushBy, retryFolders>>

KindOf(c) == IF c.table = "columns" /\ c.f.type = "idea" THEN "ideaColumns" ELSE c.table

\* createRecord is answered: the record exists and the handler stores its
\* record id in the entity, if the state still holds it.
CreateAnswer(c) ==
    LET rid == NewRid(c.no, c.table, 0)
    IN /\ dirty = {}
       /\ c \in calls
       /\ c.op = "create"
       /\ calls' = calls \ {c}
       /\ remote' = [remote EXCEPT ![c.table] = @ \cup {[c.f EXCEPT !.rid = rid]}]
       /\ local' = [local EXCEPT ![KindOf(c)] =
                        MapSeq(LAMBDA e : IF e.id = c.id THEN [e EXCEPT !.recordId = rid] ELSE e, @)]
       /\ dirty' = {KindOf(c)}
       /\ syncStatus' = "synced"
       /\ UNCHANGED <<post, maps, lastUpdate, isInitialLoad, refs, syncTimerRef, cache, reqNo,
                      encrypting, active, pushBy, retryFolders>>

\* updateRecord is answered: with an error when the backend has no record of
\* that record id.
UpdateAnswer(c) ==
    LET found == \E r \in remote[c.table] : r.rid = c.rid
    IN /\ dirty = {}
       /\ c \in calls
       /\ c.op = "update"
       /\ calls' = calls \ {c}
       /\ remote' = [remote EXCEPT ![c.table] =
                        {IF r.rid = c.rid THEN updateFields(c.table, r, c.f) ELSE r : r \in @}]
       /\ syncStatus' = IF found THEN "synced" ELSE "error"
       /\ posted' = (found /\ c.h = "debouncedSync" /\ currentUser # 0)
       /\ UNCHANGED <<post, local, maps, lastUpdate, isInitialLoad, refs, syncTimerRef, cache,
                      dirty, reqNo, encrypting, active, pushBy, retryFolders>>

\* What a handler does once its deleteRecord has been answered (ok) or has
\* failed: deleteColumn goes on to its next task and gives up at the first
\* failure, deleteDocumentFolder goes on with its loop either way.
AfterDelete(c, ok) ==
    IF c.h = "deleteColumn" /\ ok /\ c.rest # << >>
    THEN /\ calls' = (calls \ {c}) \cup
               {[Call(reqNo + 1, "delete", "tasks", Head(c.rest), NoFields, c.h, c.id)
                   EXCEPT !.rest = Tail(c.rest), !.first = FALSE]}
         /\ reqNo' = reqNo + 1
         /\ UNCHANGED <<syncStatus, local, dirty, unlockedFolders>>
    ELSE IF c.h = "deleteDocumentFolder" /\ c.table = "documents"
    THEN FolderLoop(c.id, c.cl, c.rest, FALSE, calls \ {c})
    ELSE /\ calls' = calls \ {c}
         /\ syncStatus' = IF ok THEN "synced" ELSE "error"
         /\ UNCHANGED <<reqNo, local, dirty, unlockedFolders>>

DeleteAnswer(c) ==
    LET found == \E r \in remote[c.table] : r.rid = c.rid
    IN /\ dirty = {}
       /\ c \in calls
       /\ c.op = "delete"
       /\ remote' = [remote EXCEPT ![c.table] = {r \in @ : r.rid # c.rid}]
       /\ AfterDelete(c, found)
       /\ UNCHANGED <<post, unlockedColumns, lastUpdate, isInitialLoad, refs, syncTimerRef,
                      cache, encrypting, active, pushBy, retryFolders>>

\* A request to /api/feishu/record fails before it has changed anything.
CallFail(c) ==
    /\ dirty = {}
    /\ c \in calls
    /\ c.op \in {"create", "update", "delete"}
    /\ IF c.op = "delete"
       THEN AfterDelete(c, FALSE)
       ELSE /\ calls' = calls \ {c}
            /\ syncStatus' = "error"
            /\ UNCHANGED <<reqNo, local, dirty, unlockedFolders>>
    /\ UNCHANGED <<serverVars, unlockedColumns, lastUpdate, isInitialLoad, refs, syncTimerRef,
                   cache, encrypting, active, pushBy, retryFolders>>

\* ------------------------------------------------------------ the system
\* No reload has happened.
NoReload == [state |-> EmptyData, unsynced |-> FALSE, ops |-> 0]

\* No function is under study.
NoCall == [f |-> ""]
AuthSlots == 1..MaxAuth
FreeAuth == [pc |-> "free"]
NoAuth == users = {} /\ auth = [s \in AuthSlots |-> FreeAuth]
NoTabs == tabs = <<>> /\ writeNo = 0 /\ pulled = <<>>
InitExtra == arg = NoCall /\ result = NoCall /\ NoAuth /\ NoTabs

\* The client before the App is mounted.
InitIdle ==
    /\ local = EmptyData
    /\ unlockedColumns = NoPasswords
    /\ unlockedFolders = NoPasswords
    /\ lastUpdate = [i \in Ids |-> 0]
    /\ syncStatus = "idle"
    /\ isInitialLoad = TRUE
    /\ isSavingRef = FALSE
    /\ isRefreshingRef = FALSE
    /\ needsSyncAfterDragRef = FALSE
    /\ syncTimerRef = {}
    /\ cache = {}
    /\ dirty = {}
    /\ calls = {}
    /\ encrypting = {}
    /\ active = NoDrag
    /\ pushBy = [p \in Slots |-> NoPush]
    /\ retryFolders = << >>
    /\ ops = 0
    /\ currentUser = 1
    /\ offlineQueue = {}
    /\ saveTimer = {}
    /\ posted = FALSE
    /\ applied = NoReload

\* What an earlier session of the user has left in the backend, one record
\* after the other through /api/feishu/record: an open column with a task, an
\* encrypted column with a task, an encrypted folder with a document.
SeedData ==
    [EmptyData EXCEPT
        !.columns = <<Entity(1, 0, Plain(1), Plain(0)),
                      [Entity(2, 0, Plain(1), Plain(0)) EXCEPT !.isEncrypted = TRUE,
                                                               !.encryptionSalt = 1]>>,
        !.tasks = <<Entity(1, 1, Plain(0), Plain(1)),
                    Entity(2, 2, Plain(0), encryptContent(Plain(1), 1))>>,
        !.documentFolders = <<[Entity(1, 0, Plain(1), Plain(0)) EXCEPT !.isEncrypted = TRUE,
                                                                       !.encryptionSalt = 1]>>,
        !.documents = <<[Entity(1, 0, Plain(1), Plain(1)) EXCEPT !.folderId = 1]>>]

SeedRemote ==
    [t \in Tables |->
        LET k == IF t = "columns" THEN "columns" ELSE t
        IN {[createFields(t, SeedData[k][i], IF t = "columns" THEN "task" ELSE "", i - 1)
                EXCEPT !.rid = NewRid(0, t, i)] : i \in DOMAIN SeedData[k]}]

\* The App has been mounted for a logged-in user on a browser without a cache:
\* the load effect has sent its GET.
Mounted ==
    /\ post = [p \in Slots |-> FreePost]
    /\ local = EmptyData
    /\ unlockedColumns = NoPasswords
    /\ unlockedFolders = NoPasswords
    /\ lastUpdate = [i \in Ids |-> 0]
    /\ syncStatus = "syncing"
    /\ isInitialLoad = TRUE
    /\ isSavingRef = FALSE
    /\ isRefreshingRef = FALSE
    /\ needsSyncAfterDragRef = FALSE
    /\ syncTimerRef = {}
    /\ cache = {}
    /\ dirty = {}
    /\ calls = {Call(1, "get", "", 0, NoFields, "load", 0)}
    /\ encrypting = {}
    /\ active = NoDrag
    /\ pushBy = [p \in Slots |-> NoPush]
    /\ retryFolders = << >>
    /\ ops = 0
    /\ reqNo = 1
    /\ faults = 0
    /\ stopped = FALSE
    /\ currentUser = 1
    /\ offlineQueue = {}
    /\ saveTimer = {}
    /\ posted = FALSE
    /\ applied = NoReload
    /\ InitExtra

Init == remote = SeedRemote /\ Mounted

\* Something the user does, while nothing is being dragged.
User(A) ==
    /\ dirty = {}
    /\ active = NoDrag
    /\ ops < MaxOps
    /\ A
    /\ ops' = ops + 1
    /\ posted' = FALSE
    /\ UNCHANGED <<faults, stopped, extraVars, sessionVars>>

Step(A) == A /\ posted' = FALSE /\ UNCHANGED <<ops, faults, stopped, extraVars, sessionVars>>

\* The answer to a write reaches a continuation that may post DATA_CHANGED.
Reply(A) == A /\ UNCHANGED <<ops, faults, stopped, extraVars, sessionVars>>

\* A request fails.
Fail(A) ==
    /\ faults < MaxFaults
    /\ A
    /\ faults' = faults + 1
    /\ posted' = FALSE
    /\ UNCHANGED <<ops, stopped, extraVars, sessionVars>>

clientState == <<local, maps, lastUpdate, syncStatus, isInitialLoad, refs, syncTimerRef, cache,
                 dirty, calls, encrypting, active, pushBy, retryFolders>>

\* A step of handlePost on the server.
Server(A) == A /\ UNCHANGED <<clientState, reqNo>>

Next ==
    \/ \E id \in Ids, password \in {0} \cup Passwords :
          User(handleCreateColumn(id, 1, password # 0, password))
    \/ \E id \in Ids, password \in Passwords : User(onUnlock(id, password))
    \/ \E id \in Ids : User(deleteColumn(id))
    \/ \E id \in Ids, title \in Texts : User(updateColumnTitle(id, title))
    \/ \E columnId \in Ids, id \in Ids : User(createTask(columnId, id))
    \/ \E id \in Ids : User(deleteTask(id))
    \/ \E id \in Ids, content \in Texts : User(updateTask(id, content))
    \/ \E id \in Ids : User(toggleComplete(id))
    \/ \E id \in Ids : User(deleteDocument(id))
    \/ \E id \in Ids : User(deleteDocumentFolder(id))
    \/ \E type \in {"Column", "Task"}, id \in Ids : User(onDragStart(type, id))
    \/ \E overType \in {"Column", "Task"}, overId \in Ids : Step(onDragOver(overType, overId))
    \/ \E overId \in Ids : Step(onDragEnd(overId))
    \/ User(RefreshClick)
    \/ User(OnMessage)
    \/ User(handleRetrySync)
    \/ Step(RunEffects)
    \/ Step(TimerFire)
    \/ \E e \in encrypting : Step(EncryptDone(e))
    \/ \E c \in calls : Step(GetAnswer(c, TRUE))
    \/ \E c \in calls : Fail(GetAnswer(c, FALSE))
    \/ \E c \in calls : Step(CreateAnswer(c))
    \/ \E c \in calls : Reply(UpdateAnswer(c))
    \/ \E c \in calls : Step(DeleteAnswer(c))
    \/ \E c \in calls : Fail(CallFail(c))
    \/ \E p \in Slots : Reply(PushAnswer(p))
    \/ \E p \in Slots, t \in Tables : Step(Server(PostFetch(p, t)))
    \/ \E p \in Slots, t \in Tables : Fail(Server(PostFetchFail(p, t)))
    \/ \E p \in Slots, t \in Tables : Step(Server(PostCreate(p, t)))
    \/ \E p \in Slots, t \in Tables : Fail(Server(PostCreateFail(p, t)))
    \/ \E p \in Slots, t \in Tables : Step(Server(PostDelete(p, t)))
    \/ \E p \in Slots, t \in Tables : Fail(Server(PostDeleteFail(p, t)))
    \/ \E p \in Slots : Step(Server(PostDone(p)))
    \/ \E p \in Slots : Fail(Server(PostCrash(p)))

Spec == Init /\ [][Next]_vars

\* The same App for a user who has data in the cloud or has none yet.
InitAnyUser == remote \in {SeedRemote, [t \in Tables |-> {}]} /\ Mounted
SpecAnyUser == InitAnyUser /\ [][Next]_vars

\* What happens without the user: the event loop runs every pending effect,
\* timer and continuation, and every request is answered at last (a failure
\* is an answer too, and is not forced).
Scheduled ==
    \/ Step(RunEffects)
    \/ Step(TimerFire)
    \/ \E e \in encrypting : Step(EncryptDone(e))
    \/ \E c \in calls : Step(GetAnswer(c, TRUE))
    \/ \E c \in calls : Step(CreateAnswer(c))
    \/ \E c \in calls : Reply(UpdateAnswer(c))
    \/ \E c \in calls : Step(DeleteAnswer(c))
    \/ \E p \in Slots : Reply(PushAnswer(p))
    \/ \E p \in Slots, t \in Tables : Step(Server(PostFetch(p, t)))
    \/ \E p \in Slots, t \in Tables : Step(Server(PostCreate(p, t)))
    \/ \E p \in Slots, t \in Tables : Step(Server(PostDelete(p, t)))
    \/ \E p \in Slots : Step(Server(PostDone(p)))

SpecLive == Init /\ [][Next]_vars /\ WF_vars(Scheduled)

\* ----------------------------------------------------- an editing session
\* The user unlocks columns and edits what is on screen; nothing else happens
\* but what the edits set off.
Edit(A) ==
    /\ dirty = {}
    /\ ops < MaxEdits
    /\ A
    /\ ops' = ops + 1
    /\ posted' = FALSE
    /\ UNCHANGED <<faults, stopped, extraVars, sessionVars>>

NextEdit ==
    \/ \E id \in Ids, password \in Passwords : Edit(onUnlock(id, password))
    \/ \E id \in Ids, content \in Texts : Edit(updateTask(id, content))
    \/ \E id \in Ids, title \in Texts : Edit(updateColumnTitle(id, title))
    \/ \E id \in Ids : Edit(toggleComplete(id))
    \/ Step(RunEffects)
    \/ Step(TimerFire)
    \/ \E e \in encrypting : Step(EncryptDone(e))
    \/ \E c \in calls : Step(GetAnswer(c, TRUE))
    \/ \E c \in calls : Reply(UpdateAnswer(c))
    \/ \E c \in calls : Fail(CallFail(c))

SpecEdit == Init /\ [][NextEdit]_vars

\* ------------------------------------------------- incremental edits only
\* The user creates, edits, toggles, renames and deletes, and pulls with the
\* sync button; no request fails.
Incremental(A) ==
    /\ dirty = {}
    /\ ops < MaxOrderOps
    /\ A
    /\ ops' = ops + 1
    /\ posted' = FALSE
    /\ UNCHANGED <<faults, stopped, extraVars, sessionVars>>

NextOrder ==
    \/ \E id \in Ids : Incremental(handleCreateColumn(id, 1, FALSE, 0))
    \/ \E id \in Ids : Incremental(deleteColumn(id))
    \/ \E id \in Ids, title \in Texts : Incremental(updateColumnTitle(id, title))
    \/ \E columnId \in Ids, id \in Ids : Incremental(createTask(columnId, id))
    \/ \E id \in Ids : Incremental(deleteTask(id))
    \/ \E id \in Ids, content \in Texts : Incremental(updateTask(id, content))
    \/ \E id \in Ids : Incremental(toggleComplete(id))
    \/ Incremental(RefreshClick)
    \/ Step(RunEffects)
    \/ Step(TimerFire)
    \/ \E c \in calls : Step(GetAnswer(c, TRUE))
    \/ \E c \in calls : Step(CreateAnswer(c))
    \/ \E c \in calls : Reply(UpdateAnswer(c))
    \/ \E c \in calls : Step(DeleteAnswer(c))

SpecOrder == Init /\ [][NextOrder]_vars

\* The documents view: folders are unlocked, documents edited and deleted.
NextDocs ==
    \/ \E id \in Ids, password \in Candidates : Incremental(unlockDocumentFolder(id, password))
    \/ \E id \in Ids, title \in Texts, content \in Texts :
          Incremental(updateDocument(id, title, content))
    \/ \E id \in Ids : Incremental(deleteDocument(id))
    \/ Incremental(RefreshClick)
    \/ Step(RunEffects)
    \/ Step(TimerFire)
    \/ \E c \in calls : Step(GetAnswer(c, TRUE))
    \/ \E c \in calls : Reply(UpdateAnswer(c))
    \/ \E c \in calls : Step(DeleteAnswer(c))
    \/ \E c \in calls : Fail(CallFail(c))

SpecDocs == Init /\ [][NextDocs]_vars

\* A folder with two documents: the earlier session has left a second
\* document in the seeded folder.  The user deletes documents and folders and
\* pulls with the sync button.
InitFolder ==
    /\ remote = [SeedRemote EXCEPT !["documents"] =
                    {[createFields("documents",
                                   [Entity(i, 0, Plain(1), Plain(1)) EXCEPT !.folderId = 1],
                                   "", i - 1)
                        EXCEPT !.rid = NewRid(0, "documents", i)] : i \in Ids}]
    /\ Mounted

NextFolder ==
    \/ \E id \in Ids : Incremental(deleteDocumentFolder(id))
    \/ \E id \in Ids : Incremental(deleteDocument(id))
    \/ Incremental(RefreshClick)
    \/ Step(RunEffects)
    \/ \E c \in calls : Step(GetAnswer(c, TRUE))
    \/ \E c \in calls : Step(DeleteAnswer(c))
    \/ \E c \in calls : Fail(CallFail(c))

SpecFolder == InitFolder /\ [][NextFolder]_vars

\* Drags and retries: the user creates encrypted columns, drags tasks and
\* columns, and pushes the whole state again after an error; while a push is
\* under way the user waits.
Waiting(A) ==
    /\ dirty = {}
    /\ active = NoDrag
    /\ \A p \in Slots : post[p].pc = "free"
    /\ ops < MaxRetryOps
    /\ A
    /\ ops' = ops + 1
    /\ posted' = FALSE
    /\ UNCHANGED <<faults, stopped, extraVars, sessionVars>>

NextRetry ==
    \/ \E id \in Ids, password \in Passwords :
          Waiting(handleCreateColumn(id, 1, TRUE, password))
    \/ \E type \in {"Column", "Task"}, id \in Ids : Waiting(onDragStart(type, id))
    \/ \E overType \in {"Column", "Task"}, overId \in Ids : Step(onDragOver(overType, overId))
    \/ \E overId \in Ids : Step(onDragEnd(overId))
    \/ Waiting(~isInitialLoad /\ calls = {} /\ handleRetrySync)
    \/ Step(RunEffects)
    \/ \E c \in calls : Step(GetAnswer(c, TRUE))
    \/ \E c \in calls : Step(CreateAnswer(c))
    \/ \E c \in calls : Fail(CallFail(c))
    \/ \E p \in Slots : Reply(PushAnswer(p))
    \/ \E p \in Slots, t \in Tables : Step(Server(PostFetch(p, t)))
    \/ \E p \in Slots, t \in Tables : Step(Server(PostCreate(p, t)))
    \/ \E p \in Slots, t \in Tables : Step(Server(PostDelete(p, t)))
    \/ \E p \in Slots : Step(Server(PostDone(p)))

SpecRetry == Init /\ [][NextRetry]_vars

\* ------------------------------------------------------------ the session
\* The load effect for the logged-in user: the GET is sent and
\* processOfflineQueue pushes what the offline-queue slot holds, if anything.
\* others are the requests that stay in flight.
loadEffect(others) ==
    /\ syncStatus' = "syncing"
    /\ isInitialLoad' = TRUE
    /\ calls' = others \cup {Call(reqNo + 1, "get", "", 0, NoFields, "load", 0)}
    /\ IF offlineQueue = {}
       THEN /\ reqNo' = reqNo + 1
            /\ UNCHANGED <<serverVars, pushBy>>
       ELSE \E q \in offlineQueue, p \in Slots :
                StartPush(p, "processOfflineQueue", q.data, NoPasswords)

\* The page is reloaded while the user is logged in: what was in memory is
\* gone, the requests of the old page are aborted, localStorage stays, and the
\* App is mounted again.  applied keeps what the page held: its state, and
\* whether a write of it had failed or was still to be sent or answered.
Reload ==
    /\ dirty = {}
    /\ currentUser # 0
    /\ \A p \in Slots : pushBy[p].h = ""
    /\ applied' = [state |-> local,
                   unsynced |-> \/ syncStatus = "error"
                                \/ syncTimerRef # {}
                                \/ \E c \in calls : c.op # "get",
                   ops |-> ops + 1]
    /\ local' = EmptyData
    /\ unlockedColumns' = NoPasswords
    /\ unlockedFolders' = NoPasswords
    /\ lastUpdate' = [i \in Ids |-> 0]
    /\ isSavingRef' = FALSE
    /\ isRefreshingRef' = FALSE
    /\ needsSyncAfterDragRef' = FALSE
    /\ syncTimerRef' = {}
    /\ saveTimer' = {}
    /\ encrypting' = {}
    /\ active' = NoDrag
    /\ retryFolders' = << >>
    /\ loadEffect({})
    /\ UNCHANGED <<cache, dirty, currentUser, offlineQueue>>

\* handleLogout: the login screen is shown; the App stays mounted and keeps
\* its state.  handleRetrySync is created anew, currentUser being one of its
\* dependencies.
handleLogout ==
    /\ dirty = {}
    /\ currentUser # 0
    /\ currentUser' = 0
    /\ retryFolders' = local.documentFolders
    /\ UNCHANGED <<serverVars, local, maps, lastUpdate, syncStatus, isInitialLoad, refs,
                   syncTimerRef, cache, dirty, calls, reqNo, encrypting, active, pushBy,
                   offlineQueue, saveTimer, applied>>

\* handleLogin of the same user: the load effect runs again.
handleLogin ==
    /\ dirty = {}
    /\ currentUser = 0
    /\ currentUser' = 1
    /\ retryFolders' = local.documentFolders
    /\ loadEffect(calls)
    /\ UNCHANGED <<local, maps, lastUpdate, refs, syncTimerRef, cache, dirty, encrypting, active,
                   offlineQueue, saveTimer, applied>>

\* saveUserDataDebounced, as the save effect of the auto-saving App calls it
\* after a change of the columns, tasks, idea columns or ideas: the pending
\* timer is cleared and one is armed for the snapshot.
saveUserDataDebounced ==
    /\ dirty = {}
    /\ currentUser # 0
    /\ ~isInitialLoad
    /\ saveTimer' = {[userId |-> currentUser,
                      data |-> [local EXCEPT !.documents = << >>, !.documentFolders = << >>]]}
    /\ syncStatus' = "syncing"
    /\ UNCHANGED <<serverVars, local, maps, lastUpdate, isInitialLoad, refs, syncTimerRef, cache,
                   dirty, calls, reqNo, encrypting, active, pushBy, retryFolders, currentUser,
                   offlineQueue, applied>>

\* The timer of saveUserDataDebounced fires: saveUserDataImmediate is called
\* without passwords.
SaveTimerFire ==
    /\ dirty = {}
    /\ \E s \in saveTimer, p \in Slots : StartPush(p, "saveUserDataDebounced", s.data, NoPasswords)
    /\ saveTimer' = {}
    /\ UNCHANGED <<local, maps, lastUpdate, syncStatus, isInitialLoad, refs, syncTimerRef, cache,
                   dirty, calls, encrypting, active, retryFolders, currentUser, offlineQueue,
                   applied>>

\* The POST of saveUserDataDebounced or of processOfflineQueue is answered or
\* fails: the first queues its snapshot on failure (queueOfflineData), the
\* second clears the slot on success.
QueueAnswer(p) ==
    LET ok == post[p].pc = "ok"
    IN /\ dirty = {}
       /\ pushBy[p].h \in {"saveUserDataDebounced", "processOfflineQueue"}
       /\ PostReturn(p)
       /\ pushBy' = [pushBy EXCEPT ![p] = NoPush]
       /\ syncStatus' = IF ok THEN "synced" ELSE "offline"
       /\ offlineQueue' = IF pushBy[p].h = "processOfflineQueue"
                          THEN (IF ok THEN {} ELSE offlineQueue)
                          ELSE (IF ok THEN offlineQueue
                                ELSE {[userId |-> 1, data |-> post[p].data]})
       /\ UNCHANGED <<local, maps, lastUpdate, isInitialLoad, refs, syncTimerRef, cache, dirty,
                      calls, reqNo, encrypting, active, retryFolders, currentUser, saveTimer,
                      applied>>

\* Something the logged-in user does on the board.
Logged(A) ==
    /\ dirty = {}
    /\ currentUser # 0
    /\ ops < MaxSessionOps
    /\ A
    /\ ops' = ops + 1
    /\ posted' = FALSE
    /\ UNCHANGED <<faults, stopped, extraVars, sessionVars>>

\* A step that changes what the session keeps.
Session(A) == A /\ posted' = FALSE /\ UNCHANGED <<ops, faults, stopped, extraVars>>

\* Such a step taken by the user.
SessionUser(A) ==
    /\ ops < MaxSessionOps
    /\ A
    /\ ops' = ops + 1
    /\ posted' = FALSE
    /\ UNCHANGED <<faults, stopped, extraVars>>

\* A request fails during the session.
Broken(A) ==
    /\ faults < MaxSessionFaults
    /\ A
    /\ faults' = faults + 1
    /\ posted' = FALSE
    /\ UNCHANGED <<ops, stopped, extraVars, sessionVars>>

NextSession ==
    \/ \E id \in Ids, password \in Candidates : Logged(onUnlock(id, password))
    \/ \E id \in Ids, password \in Candidates : Logged(unlockDocumentFolder(id, password))
    \/ \E id \in Ids : Logged(toggleComplete(id))
    \/ Logged(handleRetrySync)
    \/ SessionUser(saveUserDataDebounced)
    \/ SessionUser(Reload)
    \/ SessionUser(handleLogout)
    \/ SessionUser(handleLogin)
    \/ Session(SaveTimerFire)
    \/ \E p \in Slots : Session(QueueAnswer(p))
    \/ Step(RunEffects)
    \/ \E c \in calls : Step(GetAnswer(c, TRUE))
    \/ \E c \in calls : Broken(GetAnswer(c, FALSE))
    \/ \E c \in calls : Reply(UpdateAnswer(c))
    \/ \E c \in calls : Broken(CallFail(c))
    \/ \E p \in Slots : Reply(PushAnswer(p))
    \/ \E p \in Slots, t \in Tables : Step(Server(PostFetch(p, t)))
    \/ \E p \in Slots, t \in Tables : Broken(Server(PostFetchFail(p, t)))
    \/ \E p \in Slots, t \in Tables : Step(Server(PostCreate(p, t)))
    \/ \E p \in Slots, t \in Tables : Step(Server(PostDelete(p, t)))
    \/ \E p \in Slots : Step(Server(PostDone(p)))

SpecSession == Init /\ [][NextSession]_vars

\* ------------------------------------------ the full-snapshot handler alone
\* Snapshots a client may post: n[k] entities of kind k, written by edit v.
SampleEntity(k, i, v) ==
    [Entity(i, IF k \in {"tasks", "ideas"} THEN 1 ELSE 0, Plain(v), Plain(v))
        EXCEPT !.folderId = IF k = "documents" THEN 1 ELSE 0]
SampleData(n, v) == [k \in Kinds |-> [i \in 1..n[k] |-> SampleEntity(k, i, v)]]
SampleCounts ==
    { [k \in Kinds |-> 0],
      [k \in Kinds |-> IF k \in {"columns", "ideaColumns"} THEN 1 ELSE IF k = "tasks" THEN 2 ELSE 0],
      [k \in Kinds |-> IF k \in {"ideas", "documents", "documentFolders"} THEN 1 ELSE 0] }
SampleSnapshots == {SampleData(n, 1) : n \in SampleCounts}

\* The store is empty (a new user) and the client is whoever posts.
InitPush ==
    /\ remote = [t \in Tables |-> {}]
    /\ post = [p \in Slots |-> FreePost]
    /\ InitIdle
    /\ reqNo = 0
    /\ faults = 0
    /\ stopped = FALSE
    /\ InitExtra

Alone(A) == A /\ UNCHANGED <<clientVars, reqNo, faults, stopped, extraVars, sessionVars, posted>>

Post(p, data) ==
    /\ reqNo < MaxPosts
    /\ PostStart(p, reqNo + 1, data)
    /\ reqNo' = reqNo + 1
    /\ UNCHANGED <<clientVars, faults, stopped, extraVars, sessionVars, posted>>

\* A request to the table backend fails.
Fault(A) ==
    /\ faults < MaxFaults
    /\ A
    /\ faults' = faults + 1
    /\ UNCHANGED <<clientVars, reqNo, stopped, extraVars, sessionVars, posted>>

\* The function instance stops; stopped records that it did so between the
\* create phase and the delete phase.
Crash(p) ==
    /\ faults < MaxFaults
    /\ PostCrash(p)
    /\ faults' = faults + 1
    /\ stopped' = (stopped \/ (/\ post[p].fetched = Tables
                                /\ Created(p) = Tables
                                /\ post[p].deleted = {}
                                /\ \E t \in Tables : post[p].old[t] # {}))
    /\ UNCHANGED <<clientVars, reqNo, sessionVars, posted, extraVars>>

NextPush ==
    \/ \E p \in Slots, data \in SampleSnapshots : Post(p, data)
    \/ \E p \in Slots, t \in Tables : Alone(PostFetch(p, t))
    \/ \E p \in Slots, t \in Tables : Fault(PostFetchFail(p, t))
    \/ \E p \in Slots, t \in Tables : Alone(PostCreate(p, t))
    \/ \E p \in Slots, t \in Tables : Fault(PostCreateFail(p, t))
    \/ \E p \in Slots, t \in Tables : Alone(PostDelete(p, t))
    \/ \E p \in Slots, t \in Tables : Fault(PostDeleteFail(p, t))
    \/ \E p \in Slots : Alone(PostDone(p))
    \/ \E p \in Slots : Crash(p)
    \/ \E p \in Slots : Alone(PostReturn(p))

SpecPush == InitPush /\ [][NextPush]_vars

\* Several invocations of the function at a time: every request starts an
\* invocation of its own, and the tables are all that the invocations share.
\* Each one runs handlePost to its end; MaxOverlap requests are sent.
Invocations == 1..MaxOverlap

InitOverlap ==
    /\ remote = [t \in Tables |-> {}]
    /\ post = [p \in Invocations |-> FreePost]
    /\ InitIdle
    /\ reqNo = 0
    /\ faults = 0
    /\ stopped = FALSE
    /\ InitExtra

NextOverlap ==
    \/ \E p \in Invocations, data \in SampleSnapshots : reqNo < MaxOverlap /\ Post(p, data)
    \/ \E p \in Invocations, t \in Tables : Alone(PostFetch(p, t))
    \/ \E p \in Invocations, t \in Tables : Alone(PostCreate(p, t))
    \/ \E p \in Invocations, t \in Tables : Alone(PostDelete(p, t))
    \/ \E p \in Invocations : Alone(PostDone(p))
    \/ \E p \in Invocations : Alone(PostReturn(p))

SpecOverlap == InitOverlap /\ [][NextOverlap]_vars

\* ------------------------------------------------------------ utils/crypto
\* The UTF-16 code units a string is made of here: a letter, the byte order
\* mark U+FEFF, a surrogate that has no partner, and U+FFFD.
Chars == {"a", "BOM", "SUR", "REP"}
Strings == UNION {[1..n -> Chars] : n \in 0..MaxLen}

\* TextEncoder.encode: UTF-8 has no encoding of a lone surrogate, U+FFFD is
\* encoded in its place.  The bytes are written as the characters they encode.
stringToArrayBuffer(str) == [i \in DOMAIN str |-> IF str[i] = "SUR" THEN "REP" ELSE str[i]]

\* new TextDecoder().decode: with ignoreBOM false a byte order mark at the
\* start of the input is not part of the output.
arrayBufferToString(buffer) ==
    IF Len(buffer) > 0 /\ buffer[1] = "BOM" THEN Tail(buffer) ELSE buffer

Returned(v) == [ok |-> TRUE, val |-> v]
Thrown(message) == [ok |-> FALSE, val |-> message]

\* encrypt: salt + iv + AES-GCM ciphertext in Base64.  The blob is written as
\* the password its key was derived from and the bytes it seals; salt and iv
\* travel inside it, and the Base64 coding of bytes is exact both ways.
encrypt(text, password) == [key |-> password, data |-> stringToArrayBuffer(text)]

\* A string that is not Base64, or too short to hold salt, iv and tag.
Malformed == [key |-> 0, data |-> << >>]

\* decrypt without the authentication of AES-GCM: whatever the key.
decryptUnchecked(ciphertext, password) ==
    Returned(arrayBufferToString(ciphertext.data))

\* decrypt: atob, deriveKey and crypto.subtle.decrypt are all inside the try;
\* under another key the tag does not verify.
decrypt(ciphertext, password) ==
    IF ciphertext = Malformed \/ ciphertext.key # password
    THEN Thrown("Decryption failed - incorrect password")
    ELSE Returned(arrayBufferToString(ciphertext.data))

\* encryptContent and decryptContent on strings: the ENC: prefix and the blob.
encryptContentString(content, password) == [prefix |-> "ENC:", blob |-> encrypt(content, password)]
decryptContentString(content, password) ==
    IF DOMAIN content = {"prefix", "blob"}
    THEN decrypt(content.blob, password)
    ELSE Returned(content)

CryptoArgs ==
    {[f |-> "crypto", text |-> t, password |-> pw, other |-> o] :
        t \in Strings, pw \in Candidates, o \in Candidates}

InitCrypto ==
    /\ remote = [t \in Tables |-> {}]
    /\ post = [p \in Slots |-> FreePost]
    /\ InitIdle
    /\ reqNo = 0
    /\ faults = 0
    /\ stopped = FALSE
    /\ arg \in CryptoArgs
    /\ result = NoCall
    /\ NoAuth
    /\ NoTabs

\* A function is applied to arg; nothing of the program's state is involved.
Pure(A) ==
    /\ A
    /\ UNCHANGED <<serverVars, clientVars, reqNo, faults, stopped, sessionVars, posted, arg,
                   users, auth, tabVars>>

Encrypt ==
    /\ result = NoCall
    /\ result' = [f |-> "encrypt",
                  blob |-> encrypt(arg.text, arg.password),
                  content |-> encryptContentString(arg.text, arg.password)]

\* The blob just made is decrypted with the password (other false), with the
\* other password, or a malformed blob is.
Decrypt(f, pw) ==
    /\ result.f = "encrypt"
    /\ result' = [f |-> f,
                  out |-> decrypt(IF f = "malformed" THEN Malformed ELSE result.blob, pw),
                  outContent |-> decryptContentString(result.content, pw)]

NextCrypto ==
    \/ Pure(Encrypt)
    \/ Pure(Decrypt("decrypt", arg.password))
    \/ Pure(Decrypt("other", arg.other))
    \/ Pure(Decrypt("malformed", arg.password))

SpecCrypto == InitCrypto /\ [][NextCrypto]_vars

\* ------------------------------------------- encryptDataForSync by itself
\* Snapshots it may be given: a task column and an idea column, encrypted or
\* not, a task and an idea whose content is tagged or not, and a folder.
GateColumn(id, isEncrypted, tagged) ==
    [Entity(id, 0, IF tagged THEN encryptContent(Plain(1), 1) ELSE Plain(1), Plain(0))
        EXCEPT !.isEncrypted = isEncrypted, !.encryptionSalt = IF isEncrypted THEN 1 ELSE 0]
GateItem(columnId, tagged) ==
    Entity(1, columnId, Plain(0), IF tagged THEN encryptContent(Plain(1), 1) ELSE Plain(1))
GateSnapshots ==
    {[EmptyData EXCEPT !.columns = <<GateColumn(c, ce, ct)>>,
                       !.ideaColumns = <<GateColumn(ic, ie, FALSE)>>,
                       !.tasks = <<GateItem(tc, tt)>>,
                       !.ideas = <<GateItem(ec, et)>>,
                       !.documentFolders = <<GateColumn(1, fe, FALSE)>>] :
        c \in Ids, ic \in Ids, tc \in Ids, ec \in Ids,
        ce \in BOOLEAN, ct \in BOOLEAN, ie \in BOOLEAN, tt \in BOOLEAN, et \in BOOLEAN,
        fe \in BOOLEAN}

InitGate ==
    /\ remote = [t \in Tables |-> {}]
    /\ post = [p \in Slots |-> FreePost]
    /\ InitIdle
    /\ reqNo = 0
    /\ faults = 0
    /\ stopped = FALSE
    /\ arg \in {[f |-> "encryptDataForSync", data |-> d, passwords |-> pw] :
                   d \in GateSnapshots, pw \in [Ids -> {0} \cup Passwords]}
    /\ result = NoCall
    /\ NoAuth
    /\ NoTabs

EncryptForSync ==
    /\ result = NoCall
    /\ result' = [f |-> "encryptDataForSync",
                  out |-> encryptDataForSync(arg.data, arg.passwords)]

NextGate == Pure(EncryptForSync)

SpecGate == InitGate /\ [][NextGate]_vars

\* ------------------------------------------------------- api/feishu/auth
\* User ids as they are typed, and what trim().toLowerCase() makes of them.
UserIds == {"ann", "Ann ", "bob", " Bob"}
Normalize(userId) ==
    CASE userId = "Ann " -> "ann" [] userId = " Bob" -> "bob" [] OTHER -> userId
Hashes == 1..2
Actions == {"login", "register", "check", "auto"}

NoUser == [record_id |-> 0, user_id |-> "", password_hash |-> 0]
Json(status, success, error) == [status |-> status, success |-> success, error |-> error]

\* The handler up to its await of findUser.
AuthStart(s, action, userId, passwordHash) ==
    /\ auth[s].pc = "free"
    /\ \A q \in 1..(s - 1) : auth[q].pc # "free"
    /\ reqNo < MaxAuthPosts
    /\ reqNo' = reqNo + 1
    /\ auth' = [auth EXCEPT ![s] =
                   [pc |-> "find", no |-> reqNo + 1, action |-> action, userId |-> userId,
                    passwordHash |-> passwordHash, existingUser |-> NoUser,
                    reply |-> Json(0, FALSE, "")]]
    /\ UNCHANGED users

\* findUser is answered with items[0] of the search, or with null; the
\* handler goes on to its reply or, to register a new user, to createUser.
AuthFind(s) ==
    LET a == auth[s]
        items == {u \in users : u.user_id = Normalize(a.userId)}
        Answer(existingUser) ==
            LET reply ==
                    CASE a.action = "login" ->
                            IF existingUser = NoUser THEN Json(200, FALSE, "USER_NOT_FOUND")
                            ELSE IF existingUser.password_hash # a.passwordHash
                                 THEN Json(200, FALSE, "INVALID_PASSWORD")
                                 ELSE Json(200, TRUE, "")
                      [] a.action = "register" ->
                            IF existingUser # NoUser THEN Json(200, FALSE, "USER_EXISTS")
                            ELSE Json(0, FALSE, "")
                      [] a.action = "check" -> Json(200, TRUE, "")
                      [] OTHER -> Json(400, FALSE, "Invalid action")
            IN auth' = [auth EXCEPT ![s].existingUser = existingUser,
                                    ![s].reply = reply,
                                    ![s].pc = IF reply.status = 0 THEN "create" ELSE "done"]
    IN /\ a.pc = "find"
       /\ IF items = {} THEN Answer(NoUser) ELSE \E u \in items : Answer(u)
       /\ UNCHANGED <<users, reqNo>>

\* createUser is answered: the table has one record more.
AuthCreate(s) ==
    /\ auth[s].pc = "create"
    /\ users' = users \cup {[record_id |-> auth[s].no,
                             user_id |-> Normalize(auth[s].userId),
                             password_hash |-> auth[s].passwordHash]}
    /\ auth' = [auth EXCEPT ![s].reply = Json(200, TRUE, ""), ![s].pc = "done"]
    /\ UNCHANGED reqNo

\* A request to the table backend throws: the catch replies 500.
AuthThrow(s) ==
    /\ auth[s].pc \in {"find", "create"}
    /\ auth' = [auth EXCEPT ![s].reply = Json(500, FALSE, "error"), ![s].pc = "done"]
    /\ UNCHANGED <<users, reqNo>>

\* The reply has been sent; the invocation is over.
AuthReturn(s) ==
    /\ auth[s].pc = "done"
    /\ auth' = [auth EXCEPT ![s] = FreeAuth]
    /\ UNCHANGED <<users, reqNo>>

\* The users table holds one user, registered earlier.
InitAuth ==
    /\ remote = [t \in Tables |-> {}]
    /\ post = [p \in Slots |-> FreePost]
    /\ InitIdle
    /\ reqNo = 0
    /\ faults = 0
    /\ stopped = FALSE
    /\ arg = NoCall
    /\ result = NoCall
    /\ users = {[record_id |-> 0, user_id |-> "ann", password_hash |-> 1]}
    /\ auth = [s \in AuthSlots |-> FreeAuth]
    /\ NoTabs

AuthStep(A) ==
    /\ A
    /\ UNCHANGED <<serverVars, clientVars, faults, stopped, sessionVars, posted, arg, result, tabVars>>

AuthFault(A) ==
    /\ faults < MaxFaults
    /\ A
    /\ faults' = faults + 1
    /\ UNCHANGED <<serverVars, clientVars, stopped, sessionVars, posted, arg, result, tabVars>>

NextAuth ==
    \/ \E s \in AuthSlots, action \in Actions, userId \in UserIds, passwordHash \in Hashes :
          AuthStep(AuthStart(s, action, userId, passwordHash))
    \/ \E s \in AuthSlots : AuthStep(AuthFind(s))
    \/ \E s \in AuthSlots : AuthStep(AuthCreate(s))
    \/ \E s \in AuthSlots : AuthFault(AuthThrow(s))
    \/ \E s \in AuthSlots : AuthStep(AuthReturn(s))

SpecAuth == InitAuth /\ [][NextAuth]_vars

\* ----------------------------------------------- tabs on the channel
\* Two tabs of one browser, each with its own App, share the BroadcastChannel
\* zentask_sync and the cloud.  Of each App only what decides about pulls,
\* pushes and messages is kept; the initial load of each tab is over.
Tabs == {"A", "B"}
TabUsers == {1, 2}


\* postMessage: the message is queued for every other tab that has the channel
\* open, never for the channel object that posts it.
postMessage(ts, from, message) ==
    [t \in Tabs |-> IF t # from /\ ts[t].currentUser # 0
                    THEN [ts[t] EXCEPT !.inbox = Append(@, message)]
                    ELSE ts[t]]

\* The sync-after-drag effect, run after a render in which the data changed.
syncAfterDrag(tab) ==
    IF tab.needsSyncAfterDragRef /\ tab.currentUser # 0
    THEN [tab EXCEPT !.needsSyncAfterDragRef = FALSE,
                     !.dragNo = 0,
                     !.syncStatus = "syncing",
                     !.isSavingRef = TRUE,
                     !.calls = @ \cup {[h |-> "syncAfterDrag", no |-> tab.dragNo]}]
    ELSE tab

Write(A) == /\ writeNo < MaxWrites
            /\ writeNo' = writeNo + 1
            /\ A
            /\ UNCHANGED pulled

\* handleRefresh of tab t, called for the write no (0: the sync button).
\* The result says whether a pull has started.
tabRefresh(tab, no) ==
    IF tab.currentUser = 0 \/ tab.isRefreshingRef \/ tab.isSavingRef
    THEN tab
    ELSE [tab EXCEPT !.isRefreshingRef = TRUE,
                     !.syncStatus = "syncing",
                     !.calls = @ \cup {[h |-> "handleRefresh", no |-> no]}]

TabRefreshClick(t) ==
    /\ tabs[t].syncStatus \in {"idle", "synced"}
    /\ tabs' = [tabs EXCEPT ![t] = tabRefresh(@, 0)]
    /\ UNCHANGED <<writeNo, pulled>>

\* channel.onmessage without the conditions (used to test C30).
onmessageUnguarded(t) ==
    /\ tabs[t].inbox # <<>>
    /\ LET message == Head(tabs[t].inbox)
           rest == [tabs[t] EXCEPT !.inbox = Tail(@)]
       IN /\ tabs' = [tabs EXCEPT ![t] =
                         [rest EXCEPT !.isRefreshingRef = TRUE,
                                      !.syncStatus = "syncing",
                                      !.calls = @ \cup {[h |-> "handleRefresh",
                                                         no |-> message.no]}]]
          /\ pulled' = [pulled EXCEPT ![t][message.no] = @ + 1]
    /\ UNCHANGED writeNo

\* channel.onmessage of tab t: the oldest queued message is handled.
onmessage(t) ==
    /\ tabs[t].inbox # <<>>
    /\ LET message == Head(tabs[t].inbox)
           rest == [tabs[t] EXCEPT !.inbox = Tail(@)]
           after == IF message.type = "DATA_CHANGED" /\ message.userId = rest.currentUser
                    THEN tabRefresh(rest, message.no)
                    ELSE rest
       IN /\ tabs' = [tabs EXCEPT ![t] = after]
          /\ pulled' = IF after.calls # rest.calls
                       THEN [pulled EXCEPT ![t][message.no] = @ + 1]
                       ELSE pulled
    /\ UNCHANGED writeNo

\* The answer to fetchUserData reaches handleRefresh: with data (the state is
\* replaced, so the effects run), with none, or with an error.
TabPullAnswer(t, c, outcome) ==
    /\ c \in tabs[t].calls
    /\ c.h = "handleRefresh"
    /\ LET done == [tabs[t] EXCEPT !.calls = @ \ {c},
                                   !.isRefreshingRef = FALSE,
                                   !.syncStatus = IF outcome = "error" THEN "error"
                                                                       ELSE "synced"]
       IN tabs' = [tabs EXCEPT ![t] = IF outcome = "data" THEN syncAfterDrag(done) ELSE done]
    /\ UNCHANGED <<writeNo, pulled>>

\* The sync button after an error.
TabRetrySync(t) ==
    /\ tabs[t].syncStatus \in {"error", "offline"}
    /\ tabs[t].currentUser # 0
    /\ ~tabs[t].isSavingRef
    /\ tabs' = [tabs EXCEPT ![t].isSavingRef = TRUE,
                            ![t].syncStatus = "syncing",
                            ![t].calls = @ \cup {[h |-> "handleRetrySync", no |-> writeNo + 1]}]

\* A task or idea is dropped (the flag is set and no state changes, so no
\* effect runs), or a column is dropped at another place (the columns change
\* and the effect runs).  A second drop of a task before the push changes
\* nothing here.
TabDragEnd(t, type) ==
    /\ type = "Task" => ~tabs[t].needsSyncAfterDragRef
    /\ LET set == [tabs[t] EXCEPT !.needsSyncAfterDragRef = TRUE,
                                  !.dragNo = IF @ = 0 THEN writeNo + 1 ELSE @]
       IN tabs' = [tabs EXCEPT ![t] = IF type = "Column" THEN syncAfterDrag(set) ELSE set]

\* An edit of an entity: the state changes, and debouncedSync arms its timer
\* in place of the one that was pending.
TabEdit(t) ==
    tabs' = [tabs EXCEPT ![t] = [syncAfterDrag(tabs[t]) EXCEPT !.syncStatus = "syncing",
                                                               !.syncTimerRef = writeNo + 1]]

TabTimerFire(t) ==
    /\ tabs[t].syncTimerRef # 0
    /\ tabs' = [tabs EXCEPT ![t].syncTimerRef = 0,
                            ![t].calls = @ \cup {[h |-> "debouncedSync",
                                                  no |-> tabs[t].syncTimerRef]}]
    /\ UNCHANGED <<writeNo, pulled>>

\* The answer to a write: its continuation sets the status and, after a
\* success, posts DATA_CHANGED with the user of its closure.
TabWriteAnswer(t, c, ok) ==
    /\ c \in tabs[t].calls
    /\ c.h # "handleRefresh"
    /\ LET done == [tabs[t] EXCEPT !.calls = @ \ {c},
                                   !.syncStatus = IF ok THEN "synced" ELSE "error",
                                   !.isSavingRef = IF c.h = "debouncedSync" THEN @ ELSE FALSE]
           message == [type |-> "DATA_CHANGED", userId |-> done.currentUser, no |-> c.no]
       IN tabs' = IF ok THEN postMessage([tabs EXCEPT ![t] = done], t, message)
                        ELSE [tabs EXCEPT ![t] = done]
    /\ UNCHANGED <<writeNo, pulled>>

IdleTab(userId) ==
    [currentUser |-> userId, syncStatus |-> "synced", isSavingRef |-> FALSE,
     isRefreshingRef |-> FALSE, needsSyncAfterDragRef |-> FALSE, dragNo |-> 0,
     syncTimerRef |-> 0, calls |-> {}, inbox |-> <<>>]

InitTabs ==
    /\ remote = [t \in Tables |-> {}]
    /\ post = [p \in Slots |-> FreePost]
    /\ InitIdle
    /\ reqNo = 0
    /\ faults = 0
    /\ stopped = FALSE
    /\ arg = NoCall
    /\ result = NoCall
    /\ NoAuth
    /\ tabs \in {[t \in Tabs |-> IdleTab(u[t])] : u \in [Tabs -> TabUsers]}
    /\ writeNo = 0
    /\ pulled = [t \in Tabs |-> [n \in 1..MaxWrites |-> 0]]

TabStep(A) ==
    /\ A
    /\ UNCHANGED <<serverVars, clientVars, reqNo, faults, stopped, sessionVars, posted, arg,
                   result, users, auth>>

NextTabs ==
    \/ \E t \in Tabs : TabStep(TabRefreshClick(t))
    \/ \E t \in Tabs : TabStep(onmessage(t))
    \/ \E t \in Tabs : TabStep(Write(TabRetrySync(t)))
    \/ \E t \in Tabs, type \in {"Task", "Column"} : TabStep(Write(TabDragEnd(t, type)))
    \/ \E t \in Tabs : TabStep(Write(TabEdit(t)))
    \/ \E t \in Tabs : TabStep(TabTimerFire(t))
    \/ \E t \in Tabs : \E c \in tabs[t].calls, outcome \in {"data", "none", "error"} :
          TabStep(TabPullAnswer(t, c, outcome))
    \/ \E t \in Tabs : \E c \in tabs[t].calls, ok \in BOOLEAN : TabStep(TabWriteAnswer(t, c, ok))

SpecTabs == InitTabs /\ [][NextTabs]_vars

\* ------------------------------------------------------------- properties
RecordIds(t) == {r.rid : r \in remote[t]}

\* C1: handlePost deletes an old record only once the creates of all five
\* tables have succeeded; a push one of whose creates failed deletes nothing.
C1_DeleteAfterCreate ==
    [][\A t \in Tables : \A r \in remote[t] \ remote'[t] :
          \E p \in Slots : /\ r.rid \in post[p].old[t]
                           /\ post[p].fetched = Tables
                           /\ Created(p) = Tables
                           /\ post[p].errPhase \notin {"fetch", "create"}]_vars

\* A push of which a create has failed after another had succeeded, while the
\* store held old records: they are all still there.
C1_Witness ==
    \E p \in Slots :
        /\ post[p].errPhase = "create"
        /\ post[p].created # {}
        /\ \E t \in Tables : post[p].old[t] # {}
        /\ \A t \in Tables : post[p].old[t] \subseteq RecordIds(t)

\* C2: while a push that no other push overlaps stands between its create
\* phase and its delete phase, running or stopped, every old record is still in
\* the store; once such a push has run to completion the store holds exactly
\* the records of its snapshot, one per entity.
C2_NoLossThenOneEach ==
    \A p \in Slots :
        ~post[p].overlapped =>
            /\ (/\ post[p].pc \in {"run", "crashed"}
                /\ post[p].fetched = Tables
                /\ Created(p) = Tables
                /\ post[p].deleted = {})
                   => \A t \in Tables : post[p].old[t] \subseteq RecordIds(t)
            /\ post[p].pc = "ok"
                   => \A t \in Tables :
                        remote[t] = createRecords(PostRecords(post[p].data, t), post[p].no, t)

\* After a push had stopped between its phases over a non-empty store, a later
\* push of a non-empty snapshot has run to completion.
C2_Witness ==
    /\ stopped
    /\ \E p \in Slots : /\ post[p].pc = "ok"
                        /\ ~post[p].overlapped
                        /\ \E t \in Tables : remote[t] # {}

\* C3: no request the client sends holds a task of a column that is encrypted
\* and whose password is not in the map with content that is not tagged
\* ciphertext.
C3_NoPlaintextOfLockedColumn ==
    /\ \A c \in calls :
          (c.table \in {"tasks", "ideas"} /\ c.op \in {"create", "update"} /\ c.gate = "locked")
              => isEncryptedContent(c.f.content)
    /\ \A p \in Slots : ~pushBy[p].leak

\* C4: the content of a task of an encrypted column whose password is in the
\* map leaves the client as tagged ciphertext on every path.
C4_UnlockedContentEncrypted ==
    /\ \A c \in calls :
          (c.table \in {"tasks", "ideas"} /\ c.op \in {"create", "update"} /\ c.gate = "unlocked")
              => isEncryptedContent(c.f.content)
    /\ \A p \in Slots : ~pushBy[p].plain

TableOf(k) == IF k = "ideaColumns" THEN "columns" ELSE k

\* C5: every recordId in the local state is the id of an existing remote
\* record of that entity, in particular the recordId an entity had in the
\* snapshot and still has when the full-snapshot push of that snapshot has
\* just been answered with success.
C5_RecordIdsValidAfterPush ==
    [][\A p \in Slots :
          (pushBy[p].h # "" /\ post[p].pc = "ok" /\ pushBy'[p].h = "") =>
              \A k \in Kinds : \A i \in DOMAIN local'[k] :
                  (/\ local'[k][i].recordId # 0
                   /\ \E j \in DOMAIN post[p].data[k] :
                         /\ post[p].data[k][j].id = local'[k][i].id
                         /\ post[p].data[k][j].recordId = local'[k][i].recordId)
                      => \E r \in remote'[TableOf(k)] :
                            r.rid = local'[k][i].recordId /\ r.id = local'[k][i].id]_vars

\* C6: the write the debounce timer issues for a task, once every update made
\* to that task has reached debouncedSync, carries the content of the last
\* update made to it.
C6_WriteCarriesLastUpdate ==
    [][\A c \in calls' \ calls :
          (/\ c.h = "debouncedSync"
           /\ c.table = "tasks"
           /\ \A e \in encrypting : e.task.id # c.id) => c.f.content.txt = lastUpdate[c.id]]_vars

\* C7: the pending debounced write of one entity goes away only by being sent
\* or by being replaced with a later write of the same entity.
C7_TimersIndependent ==
    [][\A f \in syncTimerRef :
          f \notin syncTimerRef' =>
              \/ \E c \in calls' \ calls :
                    c.h = "debouncedSync" /\ c.table = f.table /\ c.rid = f.rid
              \/ \E g \in syncTimerRef' : g.table = f.table /\ g.rid = f.rid]_vars

\* C8: handleRefresh sends its GET only when no write of the client, single
\* record or full snapshot, and no earlier handleRefresh is in flight.
C8_PullStartsAlone ==
    [][(\E c \in calls' \ calls : c.h = "handleRefresh") =>
          /\ \A c \in calls : c.op # "get" \/ c.h # "handleRefresh"
          /\ \A c \in calls : c.op = "get"
          /\ \A p \in Slots : pushBy[p].h = ""]_vars

\* C9: a full push starts only while neither isSaving nor isRefreshing is set,
\* and isSaving is set as long as a push is in flight.
C9_PushStartsAlone ==
    [][/\ \A p \in Slots :
             (pushBy[p].h = "" /\ pushBy'[p].h # "") => (~isSavingRef /\ ~isRefreshingRef)
       /\ (\E p \in Slots : pushBy'[p].h # "") => isSavingRef']_vars

\* The state change of the handler that sent c is in the local state.
Applied(c) ==
    CASE c.h = "handleCreateColumn" -> findIndex(local.columns, c.id) # 0
      [] c.h = "createTask" -> findIndex(local.tasks, c.id) # 0
      [] c.h = "deleteTask" -> findIndex(local.tasks, c.id) = 0
      [] c.h = "toggleComplete" ->
            \A i \in DOMAIN local.tasks :
                local.tasks[i].id = c.id => local.tasks[i].completed = c.f.completed
      [] c.h = "deleteColumn" ->
            /\ findIndex(local.columns, c.id) = 0
            /\ \A i \in DOMAIN local.tasks : local.tasks[i].columnId # c.id
      [] c.h = "deleteDocument" -> findIndex(local.documents, c.id) = 0
      [] c.h = "deleteDocumentFolder" ->
            /\ findIndex(local.documentFolders, c.id) = 0
            /\ \A i \in DOMAIN local.documents : local.documents[i].folderId # c.id
      [] OTHER -> TRUE

\* C10: when a mutation handler sends its first request, its change of the
\* in-memory state has been made.
C10_OptimisticFirst ==
    [][\A c \in calls' \ calls : c.first => Applied(c)']_vars

\* C11: when the page is reloaded with a write that failed, or was not yet
\* sent or answered, the load that follows, whether its GET is answered or
\* fails, puts back the state the page held at the reload.
C11_ReloadRestoresLocal ==
    [][\A c \in calls \ calls' :
          (c.h = "load" /\ ~isInitialLoad' /\ applied.unsynced /\ applied.ops = ops)
              => local' = applied.state]_vars

\* C12: when the POST of a full-snapshot sync (debounced save, manual retry,
\* sync after drag) has failed, the offline-queue slot holds the user and the
\* snapshot of that call, and the status is offline.
C12_FailedPushIsQueued ==
    [][\A p \in Slots :
          (/\ pushBy[p].h \in {"saveUserDataDebounced", "handleRetrySync", "syncAfterDrag"}
           /\ pushBy'[p].h = ""
           /\ post[p].pc # "ok")
              => /\ offlineQueue' = {[userId |-> 1, data |-> post[p].data]}
                 /\ syncStatus' = "offline"]_vars

\* C13: the offline queue is drained at login and at explicit retry.  With an
\* empty slot no drain POST is sent; with a filled slot the POST that starts
\* carries the queued snapshot; when the POST of a drain is answered the slot
\* is cleared and the status synced on success, the slot unchanged and the
\* status offline on failure; a retry that succeeds leaves the slot empty.
C13_QueueDrained ==
    [][LET login == (currentUser = 0 /\ currentUser' # 0) \/ applied' # applied
           retry == \E p \in Slots : pushBy[p].h = "" /\ pushBy'[p].h = "handleRetrySync"
           drain(p) == pushBy[p].h = "" /\ pushBy'[p].h = "processOfflineQueue"
       IN /\ (login /\ offlineQueue = {}) => \A p \in Slots : ~drain(p)
          /\ (login /\ offlineQueue # {}) =>
                \E p \in Slots, q \in offlineQueue : drain(p) /\ post'[p].data = q.data
          /\ (retry /\ offlineQueue # {}) =>
                \E p \in Slots, q \in offlineQueue : post'[p].data = q.data
          /\ \A p \in Slots :
                (pushBy[p].h = "processOfflineQueue" /\ pushBy'[p].h = "") =>
                    IF post[p].pc = "ok"
                    THEN offlineQueue' = {} /\ syncStatus' = "synced"
                    ELSE offlineQueue' = offlineQueue /\ syncStatus' = "offline"
          /\ \A p \in Slots :
                (pushBy[p].h = "handleRetrySync" /\ pushBy'[p].h = "" /\ post[p].pc = "ok")
                    => offlineQueue' = {}]_vars

\* C14: when a single-record create, update or delete fails, the status
\* becomes error, no entity of the local state changes, nothing is written to
\* the offline queue, and the handler that made the request sends no further
\* request.
C14_FailedCallStopsThere ==
    [][\A c \in calls \ calls' :
          (c.op \in {"create", "update", "delete"} /\ faults' = faults + 1)
              => /\ syncStatus' = "error"
                 /\ local' = local
                 /\ offlineQueue' = offlineQueue
                 /\ calls' \ calls = {}]_vars

\* C15: in every local state, and so in every one reached with no request in
\* flight, every task's columnId is the id of a task column of that state, and
\* every idea's columnId the id of an idea column.
C15_ColumnIdsResolve ==
    (calls = {} /\ \A p \in Slots : pushBy[p] = NoPush) =>
    /\ \A i \in DOMAIN local.tasks : findIndex(local.columns, local.tasks[i].columnId) # 0
    /\ \A i \in DOMAIN local.ideas : findIndex(local.ideaColumns, local.ideas[i].columnId) # 0

\* C16: no update or delete request is sent, and no debounced update armed,
\* without a record id; a handler that sends one at once sends the record id
\* that the entity it finds in local state holds; and an entity of local state
\* gets a record id it did not have only in the step that answers a pull or
\* that answers the create request sent for that entity.
C16_RecordIdDiscipline ==
    [][/\ \A d \in calls' \ calls :
             d.op \in {"update", "delete"} =>
                 /\ d.rid # 0
                 /\ d.h \in {"deleteTask", "toggleComplete", "deleteDocument"} =>
                        LET i == findIndex(local[KindOf(d)], d.id)
                        IN i # 0 /\ local[KindOf(d)][i].recordId = d.rid
       /\ \A fn \in syncTimerRef' \ syncTimerRef : fn.rid # 0
       /\ \A k \in Kinds : \A i \in DOMAIN local'[k] :
             LET e == local'[k][i]
             IN (/\ e.recordId # 0
                 /\ ~\E j \in DOMAIN local[k] :
                        local[k][j].id = e.id /\ local[k][j].recordId = e.recordId)
                    => \/ \E c \in calls \ calls' : c.op = "get"
                       \/ \E c \in calls \ calls' :
                             /\ c.op = "create"
                             /\ c.id = e.id
                             /\ KindOf(c) = k
                             /\ e.recordId = NewRid(c.no, c.table, 0)]_vars

\* An entity holds the record id that the answer to its create request gave
\* it, while an update or delete request, sent with a record id, is in flight.
C16_Witness ==
    /\ \E k \in Kinds : \E i \in DOMAIN local[k] : local[k][i].recordId >= 100
    /\ \E d \in calls : d.op \in {"update", "delete"} /\ d.rid # 0

\* C17: the step in which a create, update, delete or toggle request, or a
\* full-snapshot push, is answered and ends its handler posts DATA_CHANGED
\* when the write succeeded and posts nothing when it failed.
C17_BroadcastAfterWrite ==
    [][/\ \A c \in calls \ calls' :
             (c.op \in {"create", "update", "delete"} /\ calls' \ calls = {}) =>
                 LET ok == /\ faults' = faults
                           /\ c.op = "create" \/ \E r \in remote[c.table] : r.rid = c.rid
                 IN posted' <=> ok
       /\ \A p \in Slots :
             (pushBy[p].h # "" /\ pushBy'[p].h = "") => (posted' <=> post[p].pc = "ok")]_vars

\* C18: a password enters the map of unlocked columns or of unlocked folders
\* only if it is the password the item's encryptionSalt was made from.
C18_StoredPasswordVerified ==
    [][\A id \in Ids :
          /\ (unlockedColumns'[id] # unlockedColumns[id] /\ unlockedColumns'[id] # 0) =>
                \E i \in DOMAIN local'.columns :
                    /\ local'.columns[i].id = id
                    /\ local'.columns[i].encryptionSalt = unlockedColumns'[id]
          /\ (unlockedFolders'[id] # unlockedFolders[id] /\ unlockedFolders'[id] # 0) =>
                \E i \in DOMAIN local'.documentFolders :
                    /\ local'.documentFolders[i].id = id
                    /\ local'.documentFolders[i].encryptionSalt = unlockedFolders'[id]]_vars

\* C19: once a pull has been answered - here a refresh, answered while no
\* other request is in flight - no task of a column whose password is in the
\* map of unlocked columns holds content encrypted under that password.
C19_PulledContentDecrypted ==
    [][\A c \in calls \ calls' :
          (c.op = "get" /\ c.h = "handleRefresh" /\ faults' = faults /\ calls' = {}) =>
              \A i \in DOMAIN local'.tasks :
                  LET t == local'.tasks[i]
                  IN (unlockedColumns'[t.columnId] # 0 /\ isEncryptedContent(t.content))
                         => t.content.pw # unlockedColumns'[t.columnId]]_vars

\* C20: while no user is logged in, after a logout, the maps of unlocked
\* columns and of unlocked folders are empty.
C20_LogoutForgetsPasswords ==
    currentUser = 0 => (unlockedColumns = NoPasswords /\ unlockedFolders = NoPasswords)

\* The entities two arrays share are in the same order in both.
SameOrder(s1, s2) ==
    \A i, j \in DOMAIN s1 : \A a, b \in DOMAIN s2 :
        (i < j /\ s2[a].id = s1[i].id /\ s2[b].id = s1[j].id) => a < b

DistinctIds(s) == \A i, j \in DOMAIN s : s[i].id = s[j].id => i = j

\* C21: when a refresh is answered after incremental writes that have all
\* been answered, with no timer pending and the status synced when the pull
\* began, the columns, the tasks and the ideas it puts into state are in the
\* order the local arrays had.
C21_PullKeepsOrder ==
    [][\A c \in calls \ calls' :
          (/\ c.op = "get" /\ c.h = "handleRefresh"
           /\ calls' = {} /\ syncTimerRef = {} /\ encrypting = {}
           /\ \A k \in Kinds : DistinctIds(local[k]) /\ DistinctIds(local'[k]))
              => \A k \in {"columns", "ideaColumns", "tasks", "ideas"} :
                     SameOrder(local[k], local'[k])]_vars

\* C22: for every string p, the empty one included, and every password pw,
\* decrypt(encrypt(p, pw), pw) returns p and
\* decryptContent(encryptContent(p, pw), pw) returns p.
C22_RoundTrip ==
    result.f = "decrypt" =>
        /\ result.out = Returned(arg.text)
        /\ result.outContent = Returned(arg.text)

Sent(op, t) == {c \in calls' \ calls : c.op = op /\ c.table = t}

\* C24: once the load is over, the step in which the user adds a column sends
\* exactly one create request for it, the step in which they add a task
\* exactly one create request for it, and the step in which they toggle a
\* task exactly one update request, whether or not the task's create request
\* has been answered.
C24_OneRequestEach ==
    [][(~isInitialLoad /\ calls \subseteq calls' /\ dirty = {}) =>
          /\ Len(local'.columns) > Len(local.columns) =>
                Cardinality(Sent("create", "columns")) = 1
          /\ Len(local'.tasks) > Len(local.tasks) =>
                Cardinality(Sent("create", "tasks")) = 1
          /\ (/\ Len(local'.tasks) = Len(local.tasks)
              /\ \E i \in DOMAIN local.tasks :
                    local'.tasks[i].completed # local.tasks[i].completed)
                => Cardinality(Sent("update", "tasks")) = 1]_vars

\* C25: a request with action auto is answered as a login when the normalized
\* user exists - success exactly when the stored hash is the hash sent - and
\* as a registration when not: a record of the user exists and it succeeds.
C25_AutoResolved ==
    \A s \in AuthSlots :
        (auth[s].pc = "done" /\ auth[s].action = "auto" /\ auth[s].reply.status # 500) =>
            IF auth[s].existingUser # NoUser
            THEN auth[s].reply.success
                     = (auth[s].existingUser.password_hash = auth[s].passwordHash)
            ELSE /\ auth[s].reply.success
                 /\ \E u \in users : u.user_id = Normalize(auth[s].userId)

\* C26: the users table holds at most one record of each normalized user id.
C26_OneRecordPerUser ==
    \A u, v \in users : u.user_id = v.user_id => u = v

\* The ids of the encrypted columns of a snapshot, of either board.
EncryptedIds(data) ==
    {data.columns[i].id : i \in {j \in DOMAIN data.columns : data.columns[j].isEncrypted}}
        \cup {data.ideaColumns[i].id :
                 i \in {j \in DOMAIN data.ideaColumns : data.ideaColumns[j].isEncrypted}}

C28_PlaceholderTitles ==
    result.f = "encryptDataForSync" =>
        \A k \in {"columns", "ideaColumns", "documentFolders"} :
            /\ Len(result.out[k]) = Len(arg.data[k])
            /\ \A i \in DOMAIN arg.data[k] :
                  LET e == arg.data[k][i]
                      known == k # "documentFolders" /\ arg.passwords[e.id] # 0
                  IN /\ result.out[k][i].id = e.id
                     /\ (e.isEncrypted /\ ~known /\ ~isEncryptedContent(e.title)) =>
                            result.out[k][i].title = Plain(0)

\* C29: the status becomes synced, error or offline only from syncing, and
\* leaves error or offline only for syncing (or idle); here for the steps that
\* answer a create, update or delete request once the load is over.
C29_StatusMachine ==
    [][(/\ syncStatus' # syncStatus
        /\ ~isInitialLoad
        /\ \E c \in calls \ calls' : c.op \in {"create", "update", "delete"}) =>
          /\ syncStatus' \in {"synced", "error", "offline"} => syncStatus = "syncing"
          /\ syncStatus \in {"error", "offline"} => syncStatus' \in {"syncing", "idle"}]_vars

\* C30: a tab starts a pull on a message only if the message's userId is the
\* tab's current user and neither isSaving nor isRefreshing is set; the step
\* in which a pull is answered posts no message; and no tab starts more than
\* one pull for one write.
C30_CrossTabPull ==
    [][\A t \in Tabs :
          /\ \A c \in tabs'[t].calls \ tabs[t].calls :
                (c.h = "handleRefresh" /\ c.no # 0) =>
                    /\ tabs[t].inbox # <<>>
                    /\ Head(tabs[t].inbox).no = c.no
                    /\ Head(tabs[t].inbox).userId = tabs[t].currentUser
                    /\ ~tabs[t].isSavingRef
                    /\ ~tabs[t].isRefreshingRef
          /\ (\E c \in tabs[t].calls \ tabs'[t].calls : c.h = "handleRefresh") =>
                \A u \in Tabs : tabs'[u].inbox = tabs[u].inbox
          /\ \A n \in 1..MaxWrites : pulled'[t][n] <= 1]_vars

\* Each tab has pulled once for a write of the other, and all is quiet again.
C30_Witness ==
    /\ tabs # <<>>
    /\ \E n, m \in 1..MaxWrites :
          /\ n # m
          /\ pulled["A"][n] = 1
          /\ pulled["B"][m] = 1
    /\ \A t \in Tabs : tabs[t].calls = {} /\ tabs[t].inbox = <<>>
    /\ \E t \in Tabs : tabs[t].syncStatus = "synced" /\ tabs[t].dragNo = 0

\* The drag has moved task 1 away from where the cloud holds it: behind task 2
\* or into another column.
Reordered ==
    LET i == findIndex(local.tasks, 1)
    IN /\ i # 0
       /\ local.tasks[i].columnId # 1 \/ i # 1

\* C31: once a drag has ended over a target (the flag is set), the
\* full-snapshot push of the sync-after-drag effect is started at last, in
\* every run in which the user does not keep an item in the air for ever;
\* here for drags that have moved a task.
C31_DragPushStarted ==
    <>[](active = NoDrag) =>
        ((needsSyncAfterDragRef /\ Reordered) ~>
            (\E p \in Slots : pushBy[p] # NoPush /\ pushBy[p].h = "syncAfterDrag"))

\* C32: when handleRefresh is answered with a snapshot that is empty in all
\* six collections, the state and the cache stay as they are and the status
\* becomes synced; no answer to handleRefresh empties a state that held data.
C32_EmptyPullKeepsLocal ==
    [][\A c \in calls \ calls' :
          (c.op = "get" /\ c.h = "handleRefresh" /\ faults' = faults) =>
              /\ (\A k \in Kinds : handleGet(remote)[k] = <<>>) =>
                     /\ local' = local
                     /\ cache' = cache
                     /\ syncStatus' = "synced"
              /\ (\E k \in Kinds : local[k] # <<>>) => (\E k \in Kinds : local'[k] # <<>>)]_vars

\* The user has no data in the cloud, the create request of their first
\* column has failed, and a pull has since been answered.
C32_Witness ==
    /\ \A t \in Tables : remote[t] = {}
    /\ local.columns # <<>>
    /\ faults = 1
    /\ syncStatus = "synced"
    /\ calls = {}
    /\ ~isRefreshingRef
    /\ ~isInitialLoad
    /\ \A p \in Slots : post[p] = FreePost /\ pushBy[p] = NoPush

\* C33: when a full-snapshot push has completed, a pull returns every task
\* column, idea column and document of the pushed snapshot with the isEncrypted
\* flag and the encryptionSalt it was pushed with (here for the pushes of the
\* sync after a drag).
C33_PushKeepsEncryption ==
    [][\A p \in Slots :
          (post[p].pc = "run" /\ post'[p].pc = "ok" /\ pushBy[p].h = "syncAfterDrag") =>
              \A k \in {"columns", "ideaColumns", "documents"} :
                  \A i \in DOMAIN post[p].data[k] :
                      LET e == post[p].data[k][i]
                          j == findIndex(handleGet(remote')[k], e.id)
                      IN /\ j # 0
                         /\ handleGet(remote')[k][j].isEncrypted = e.isEncrypted
                         /\ handleGet(remote')[k][j].encryptionSalt = e.encryptionSalt]_vars

\* C34: the update request of a document title or content edit leaves the
\* folder_id and the sort_order of the document's record as they were.
C34_DocumentUpdateFrame ==
    [][\A c \in calls \ calls' :
          (c.op = "update" /\ c.table = "documents" /\ faults' = faults) =>
              \A r \in remote.documents :
                  r.rid = c.rid =>
                      \E q \in remote'.documents :
                          /\ q.rid = r.rid
                          /\ q.folder_id = r.folder_id
                          /\ q.sort_order = r.sort_order]_vars

\* C35: a full-snapshot push takes no task out of the remote store that the
\* state still holds; here for the tasks the gate leaves out (encrypted
\* column, no password, untagged content): when the push deletes the old
\* record of such a task, the store holds another record of it.
C35_PushKeepsExcluded ==
    [][\A r \in remote.tasks \ remote'.tasks :
          \A i \in DOMAIN local.tasks :
              (/\ local.tasks[i].id = r.id
               /\ Gate(local.columns, unlockedColumns, local.tasks[i].columnId) = "locked"
               /\ ~isEncryptedContent(local.tasks[i].content)) =>
                  \E q \in remote'.tasks : q.id = r.id]_vars

\* C36: when the create request of a task that has meanwhile been deleted
\* from the state is answered and no request is left in flight, the remote
\* store holds no record of that task.
C36_DeletedWhileCreating ==
    [][\A c \in calls \ calls' :
          (/\ c.op = "create"
           /\ c.table = "tasks"
           /\ findIndex(local.tasks, c.id) = 0
           /\ calls' = {}
           /\ syncTimerRef' = {}) =>
              \A r \in remote'.tasks : r.id # c.id]_vars

\* C37: every successful push clears the offline-queue slot or supersedes what
\* it holds: once a push has been answered with success, the slot holds no
\* snapshot other than the one just pushed, so no later drain can push an
\* older one (here for the pushes of the debounced save and for the tasks of
\* the snapshots).
C37_QueueSuperseded ==
    [][\A p \in Slots :
          (/\ pushBy[p].h = "saveUserDataDebounced"
           /\ pushBy'[p] = NoPush
           /\ post[p].pc = "ok") =>
              \A q \in offlineQueue' : q.data.tasks = post[p].data.tasks]_vars

\* C38: in every reachable state the ids within each of the six collections
\* are pairwise distinct.
C38_DistinctLocalIds == \A k \in Kinds : DistinctIds(local[k])


\* C39: when two pushes that overlapped each other have both run to
\* completion, the store holds exactly the records of one of the two
\* snapshots, one record per entity.
C39_OverlapLeavesOneSnapshot ==
    \A p, q \in DOMAIN post :
        (/\ p # q
         /\ post[p].pc = "ok" /\ post[q].pc = "ok"
         /\ post[p].overlapped /\ post[q].overlapped)
            => \E w \in {p, q} :
                  \A t \in Tables :
                     remote[t] = createRecords(PostRecords(post[w].data, t), post[w].no, t)

\* C40: when deleteDocumentFolder, called for a folder that holds documents,
\* has had its last document request answered and takes the folder out of
\* the state, the state holds no document of that folder.
C40_FolderAndDocumentsGone ==
    [][\A id \in Ids :
          (/\ \E c \in calls \ calls' :
                 c.op = "delete" /\ c.h = "deleteDocumentFolder" /\ c.table = "documents"
                                /\ c.id = id
           /\ ~\E d \in calls' \ calls :
                 d.op = "delete" /\ d.h = "deleteDocumentFolder" /\ d.table = "documents"
           /\ findIndex(local'.documentFolders, id) = 0)
              => \A i \in DOMAIN local'.documents : local'.documents[i].folderId # id]_vars
====
